---- MODULE Spec2Model ----
(***************************************************************************)
(* Model of Granite's ocean renderer (renderer/ocean.cpp): the LOD mesh    *)
(* table, the camera-snapped LOD grid, the GPU-driven visibility culler    *)
(* that appends tiles with atomic counters, and the indirect renderer.     *)
(*                                                                         *)
(* World coordinates are exact rationals.  An x coordinate is held as an   *)
(* integer numerator k standing for k * size.x / (2 * grid_width), and a   *)
(* z coordinate as k * size.z / (2 * grid_height): every grid coordinate   *)
(* the code computes is such a multiple.                                   *)
(***************************************************************************)
EXTENDS Integers, Sequences, FiniteSets, TLC

VARIABLES
    grid_width, grid_height,   \* cell-grid dimensions (configuration)
    grid_resolution,           \* tessellation resolution of one cell
    size,                      \* world size <<x, z>>
    device_alive,              \* between on_device_created and on_device_destroyed
    device_events,             \* number of device-created events delivered so far
    buffers,                   \* device buffers: handle -> contents
    quad_lod,                  \* the LOD mesh table, finest tier first
    distribution_buffer,       \* the three spectrum distribution buffers
    distribution_buffer_displacement,
    distribution_buffer_normal,
    last_camera_position,      \* <<x, y, z>>, latched by refresh
    frustum,                   \* the six planes of the context's visibility frustum
    current_time,              \* elapsed time latched by on_frame_tick
    build,                     \* position of build_buffers when it is followed step by step
    frame,                     \* number of LOD passes recorded so far
    cmd,                       \* commands recorded by the LOD update pass
    counters_initialized,      \* the init_counter_buffer dispatch of this pass has run
    ocean_lod,                 \* LOD level texture: texel -> level
    lod_data_counters,         \* counter buffer: slot -> indirect draw record
    lod_data,                  \* tile buffer: written record index -> tile record
    classified,                \* per classification thread: the level it wrote, NULL before it runs
    cull_slot,                 \* per cull thread: what it did, NULL before it runs
    draws,                     \* what the last render invocation issued
    height_fft_size,           \* resolutions of the three spectral fields (configuration)
    displacement_fft_size,
    normal_fft_size,
    attachment_levels,         \* mip count of an attachment whose levels the code leaves unset
    declared,                  \* render graph: resource name -> what add_render_passes declared
    target_inputs,             \* resources the render pass declared as inputs
    physical,                  \* render graph: resource name -> physical resource
    reallocations,             \* number of times the graph allocated its physical resources
    vertex_mip_views,          \* cached per-level views of ocean-height-displacement-output
    fragment_mip_views,        \* cached per-level views of ocean-gradient-jacobian-output
    normal_mip_views,          \* cached per-level views of ocean-normal-fft-output
    resources_ready,           \* setup_render_pass_resources has run for this frame
    fft_cmd,                   \* commands recorded by the FFT update pass
    fft_pc,                    \* number of those commands the device has executed
    written                    \* resources the executed FFT commands have written

config_vars == <<grid_width, grid_height, grid_resolution, size,
                 height_fft_size, displacement_fft_size, normal_fft_size, attachment_levels>>
device_vars == <<device_alive, device_events, buffers, quad_lod, distribution_buffer,
                 distribution_buffer_displacement, distribution_buffer_normal, build>>
input_vars == <<last_camera_position, frustum, current_time>>
gpu_vars == <<counters_initialized, ocean_lod, lod_data_counters, lod_data,
              classified, cull_slot>>
view_vars == <<vertex_mip_views, fragment_mip_views, normal_mip_views>>
graph_vars == <<declared, target_inputs, physical, reallocations>>
fft_vars == <<resources_ready, fft_cmd, fft_pc, written>>
vars == <<config_vars, device_vars, input_vars, frame, cmd, gpu_vars, draws,
          graph_vars, view_vars, fft_vars>>

----------------------------------------------------------------------------
(* Bounds of the model *)

MaxCells == 4
MaxResolution == 8
MaxMeshResolution == 16
MaxFrames == 2
MaxDeviceEvents == 2
MaxCamera == 3
WorldSize == 4
MaxGarbage == 1

(* Program constants *)

MaxLODIndirect == 8
WorkGroupSize == 8
NumVertexCounts == 16
RestartIndex == 65535
HeightmapMin == 0 - 10
HeightmapMax == 10
FullWeight == 255
LodRecordBytes == 32
IndirectDrawBytes == 32

\* No handle / no value: a texel, record or thread result not written yet.
NULL == 0 - 1
NotRun == [ran |-> FALSE, visible |-> FALSE, lod |-> NULL, slot |-> NULL]

Min(a, b) == IF a < b THEN a ELSE b
Max(a, b) == IF a > b THEN a ELSE b
Abs(a) == IF a < 0 THEN 0 - a ELSE a

RECURSIVE Pow2(_)
Pow2(k) == IF k = 0 THEN 1 ELSE 2 * Pow2(k - 1)

----------------------------------------------------------------------------
(* LOD mesh table: Ocean::build_lod, Ocean::build_buffers *)

Bool8(b) == IF b THEN 1 ELSE 0

\* The if / else-if chain of build_lod: at most one weight is set.
VertexWeights_Independent(x, y, res) ==
    <<IF x = 0 THEN FullWeight ELSE 0, IF x = res THEN FullWeight ELSE 0,
      IF y = 0 THEN FullWeight ELSE 0, IF y = res THEN FullWeight ELSE 0>>
VertexWeights(x, y, res) ==
    IF x = 0 THEN <<FullWeight, 0, 0, 0>>
    ELSE IF x = res THEN <<0, FullWeight, 0, 0>>
    ELSE IF y = 0 THEN <<0, 0, FullWeight, 0>>
    ELSE IF y = res THEN <<0, 0, 0, FullWeight>>
    ELSE <<0, 0, 0, 0>>

OceanVertex(x, y, res) ==
    [pos |-> <<x % 256, y % 256, Bool8(x < res \div 2), Bool8(y < res \div 2)>>,
     weights |-> VertexWeights(x, y, res)]

\* for (x = 0; x <= grid_resolution; x += stride)
RECURSIVE VertexRow(_, _, _, _)
VertexRow_Exclusive(x, y, res, stride) ==
    IF x >= res THEN <<>>
    ELSE <<OceanVertex(x, y, res)>> \o VertexRow(x + stride, y, res, stride)
VertexRow(x, y, res, stride) ==
    IF x > res THEN <<>>
    ELSE <<OceanVertex(x, y, res)>> \o VertexRow(x + stride, y, res, stride)

\* for (y = 0; y <= grid_resolution; y += stride)
RECURSIVE VertexRows(_, _, _)
VertexRows(y, res, stride) ==
    IF y > res THEN <<>>
    ELSE VertexRow(0, y, res, stride) \o VertexRows(y + stride, res, stride)

\* indices.push_back(base + x); indices.push_back(base + size_1 + x); on uint16_t
StripPair(x, base, lodsize) == <<(base + x) % 65536, (base + lodsize + 1 + x) % 65536>>

\* for (x = 0; x <= size; x++) { push(base + x); push(base + size_1 + x); }
RECURSIVE StripRow(_, _, _)
StripRow(x, base, lodsize) ==
    IF x > lodsize THEN <<>>
    ELSE StripPair(x, base, lodsize) \o StripRow(x + 1, base, lodsize)

\* for (slice = 0; slice < slices; slice++) { ...; push(0xffff); }
RECURSIVE StripSlices(_, _)
StripSlices(slice, lodsize) ==
    IF slice >= lodsize THEN <<>>
    ELSE StripRow(0, slice * (lodsize + 1), lodsize) \o <<RestartIndex>>
         \o StripSlices(slice + 1, lodsize)

\* Device::create_buffer: a fresh handle holding the data.
FreshHandle(bufs) == CHOOSE h \in 0..Cardinality(DOMAIN bufs) : h \notin DOMAIN bufs
CreateBuffer(bufs, data) == [h \in (DOMAIN bufs) \cup {FreshHandle(bufs)} |->
                                IF h \in DOMAIN bufs THEN bufs[h] ELSE data]

\* The state a device-created handler works on: the mesh table, the device's
\* buffers, the number of create_buffer calls made so far, the calls that the
\* device fails, and the handle the last call returned.
DeviceState(ql, bufs, fails) ==
    [quad_lod |-> ql, buffers |-> bufs, calls |-> 0, fails |-> fails, handle |-> NULL]

\* device.create_buffer(info, data): the handle of a new buffer, or a null
\* handle when the device cannot create it.
create_buffer(st, data) ==
    IF st.calls \in st.fails
    THEN [st EXCEPT !.calls = @ + 1, !.handle = NULL]
    ELSE [st EXCEPT !.calls = @ + 1, !.handle = FreshHandle(st.buffers),
                    !.buffers = CreateBuffer(@, data)]

\* One call of build_lod on the state st.
build_lod(st, res, lodsize, stride) ==
    LET vertices == VertexRows(0, res, stride)
        indices == StripSlices(0, lodsize)
        withVbo == create_buffer(st, vertices)
        withIbo == create_buffer(withVbo, indices)
        lod == [vbo |-> withVbo.handle, ibo |-> withIbo.handle, count |-> Len(indices),
                lodsize |-> lodsize, stride |-> stride]
    IN [withIbo EXCEPT !.quad_lod = Append(@, lod)]

\* while (size >= 2) { build_lod(device, size, stride); size >>= 1; stride <<= 1; }
RECURSIVE BuildLoop(_, _, _, _)
KeepBuilding_Inclusive(lodsize) == lodsize >= 1
KeepBuilding(lodsize) == lodsize >= 2
BuildLoop(st, res, lodsize, stride) ==
    IF KeepBuilding(lodsize)
    THEN BuildLoop(build_lod(st, res, lodsize, stride), res, lodsize \div 2, stride * 2)
    ELSE st

build_buffers(st, res) == BuildLoop(st, res, res, 1)

\* Ocean::init_distributions: three zero-initialised buffers of N * N * sizeof(vec2).
DistributionData(n) == [bytes |-> n * n * 8, zero |-> TRUE]

----------------------------------------------------------------------------
(* Grid snapping: Ocean::get_grid_size, get_snapped_grid_center,           *)
(* get_grid_base_coord and the grid_base of build_lod_map / cull_blocks    *)

\* round(n / d) for d > 0, halves away from zero.
RoundDiv_Truncate(n, d) == IF n >= 0 THEN n \div d ELSE 0 - ((0 - n) \div d)
RoundDiv(n, d) ==
    IF n >= 0 THEN (2 * n + d) \div (2 * d) ELSE 0 - ((2 * (0 - n) + d) \div (2 * d))

\* size / vec2(grid_width, grid_height), in coordinate units: one cell is two units.
\* (With a zero grid dimension the quotient is infinite and the unit is void;
\* no thread is launched to read what is pushed then.)
get_grid_size == <<2, 2>>

\* round(last_camera_position.xz() * (vec2(grid_width, grid_height) / size))
get_snapped_grid_center(cam, gw, gh, sz) ==
    <<RoundDiv(cam[1] * gw, sz[1]), RoundDiv(cam[3] * gh, sz[2])>>

\* ivec2(get_snapped_grid_center()) - (ivec2(grid_width, grid_height) >> 1)
get_grid_base_coord(cam, gw, gh, sz) ==
    LET c == get_snapped_grid_center(cam, gw, gh, sz)
    IN <<c[1] - (gw \div 2), c[2] - (gh \div 2)>>

\* grid_center * get_grid_size() - 0.5f * size, in coordinate units
\* (0.5 * size.x is grid_width units, 0.5 * size.z is grid_height units).
GridBase(cam, gw, gh, sz) ==
    LET c == get_snapped_grid_center(cam, gw, gh, sz)
    IN <<c[1] * get_grid_size[1] - gw, c[2] * get_grid_size[2] - gh>>

----------------------------------------------------------------------------
(* Commands recorded by Ocean::update_lod_pass *)

\* cmd.dispatch((grid_width + 7) / 8, (grid_height + 7) / 8, 1)
GridGroups_OneMore(gw, gh) == <<gw \div WorkGroupSize + 1, gh \div WorkGroupSize + 1, 1>>
GridGroups_RoundDown(gw, gh) == <<gw \div WorkGroupSize, gh \div WorkGroupSize, 1>>
GridGroups(gw, gh) ==
    <<(gw + WorkGroupSize - 1) \div WorkGroupSize, (gh + WorkGroupSize - 1) \div WorkGroupSize, 1>>

\* push.max_lod = float(quad_lod.size()) - 1.0f
MaxLodPush_OneTooMany(ql) == Len(ql)
MaxLodPush(ql) == Len(ql) - 1

\* Ocean::build_lod_map
build_lod_map(cam, gw, gh, sz, ql) ==
    [op |-> "dispatch", program |-> "update_lod",
     storage |-> {"ocean-lods"}, sampled |-> {},
     groups |-> GridGroups(gw, gh),
     push |-> [camera_pos |-> cam,
               max_lod |-> MaxLodPush(ql),
               image_offset |-> get_grid_base_coord(cam, gw, gh, sz),
               num_threads |-> <<gw, gh>>,
               grid_base |-> GridBase(cam, gw, gh, sz),
               grid_size |-> get_grid_size]]

\* Ocean::init_counter_buffer: vertex_counts[i] = i < quad_lod.size() ? quad_lod[i].count : 0
init_counter_buffer(ql) ==
    [op |-> "dispatch", program |-> "init_counter_buffer",
     storage |-> {"ocean-lod-counter"}, sampled |-> {},
     groups |-> <<1, 1, 1>>,
     num_counters |-> MaxLODIndirect,
     vertex_counts |-> [i \in 0..(NumVertexCounts - 1) |->
                           IF i < Len(ql) THEN ql[i + 1].count ELSE 0]]

\* cmd.barrier(COMPUTE, SHADER_WRITE, COMPUTE, SHADER_WRITE | SHADER_READ)
ComputeBarrier == [op |-> "barrier"]

\* Ocean::cull_blocks
cull_blocks_FivePlanes(cam, gw, gh, sz, res, planes) ==
    [op |-> "dispatch", program |-> "cull_blocks",
     storage |-> {"ocean-lod-data", "ocean-lod-counter"}, sampled |-> {"ocean-lods"},
     groups |-> GridGroups(gw, gh),
     frustum |-> [i \in 1..6 |-> IF i < 6 THEN planes[i] ELSE <<0, 0, 0, 1>>],
     push |-> [image_offset |-> get_grid_base_coord(cam, gw, gh, sz),
               num_threads |-> <<gw, gh>>,
               grid_base |-> GridBase(cam, gw, gh, sz),
               grid_size |-> get_grid_size,
               lod_stride |-> gw * gh,
               heightmap_range |-> <<HeightmapMin, HeightmapMax>>,
               grid_resolution |-> res]]
cull_blocks_ShortStride(cam, gw, gh, sz, res, planes) ==
    [op |-> "dispatch", program |-> "cull_blocks",
     storage |-> {"ocean-lod-data", "ocean-lod-counter"}, sampled |-> {"ocean-lods"},
     groups |-> GridGroups(gw, gh),
     frustum |-> planes,
     push |-> [image_offset |-> get_grid_base_coord(cam, gw, gh, sz),
               num_threads |-> <<gw, gh>>,
               grid_base |-> GridBase(cam, gw, gh, sz),
               grid_size |-> get_grid_size,
               lod_stride |-> gw * gh - 1,
               heightmap_range |-> <<HeightmapMin, HeightmapMax>>,
               grid_resolution |-> res]]
cull_blocks(cam, gw, gh, sz, res, planes) ==
    [op |-> "dispatch", program |-> "cull_blocks",
     storage |-> {"ocean-lod-data", "ocean-lod-counter"}, sampled |-> {"ocean-lods"},
     groups |-> GridGroups(gw, gh),
     frustum |-> planes,
     push |-> [image_offset |-> get_grid_base_coord(cam, gw, gh, sz),
               num_threads |-> <<gw, gh>>,
               grid_base |-> GridBase(cam, gw, gh, sz),
               grid_size |-> get_grid_size,
               lod_stride |-> gw * gh,
               heightmap_range |-> <<HeightmapMin, HeightmapMax>>,
               grid_resolution |-> res]]

\* Ocean::update_lod_pass
update_lod_pass_NoBarrier(cam, gw, gh, sz, res, ql, planes) ==
    <<build_lod_map(cam, gw, gh, sz, ql), init_counter_buffer(ql),
      cull_blocks(cam, gw, gh, sz, res, planes), ComputeBarrier>>
update_lod_pass_BarrierEarly(cam, gw, gh, sz, res, ql, planes) ==
    <<build_lod_map(cam, gw, gh, sz, ql), ComputeBarrier, init_counter_buffer(ql),
      cull_blocks(cam, gw, gh, sz, res, planes)>>
update_lod_pass_NoInit(cam, gw, gh, sz, res, ql, planes) ==
    <<build_lod_map(cam, gw, gh, sz, ql),
      ComputeBarrier, cull_blocks(cam, gw, gh, sz, res, planes)>>
update_lod_pass(cam, gw, gh, sz, res, ql, planes) ==
    <<build_lod_map(cam, gw, gh, sz, ql), init_counter_buffer(ql),
      ComputeBarrier, cull_blocks(cam, gw, gh, sz, res, planes)>>

----------------------------------------------------------------------------
(* The compute shaders the pass dispatches: update_lod.comp,               *)
(* init_counter_buffer.comp and cull_blocks.comp.                          *)

\* Threads of a dispatch that pass the shader's bounds test (id < num_threads).
DispatchThreads(c) ==
    {id \in (0..(c.groups[1] * WorkGroupSize - 1)) \X (0..(c.groups[2] * WorkGroupSize - 1)) :
        id[1] < c.push.num_threads[1] /\ id[2] < c.push.num_threads[2]}

\* Texel a thread addresses: (image_offset + id) wrapped to the texture size.
Texel(push, id) ==
    <<(push.image_offset[1] + id[1]) % push.num_threads[1],
      (push.image_offset[2] + id[2]) % push.num_threads[2]>>

\* World offset of the cell of thread id, in coordinate units.
CellOffset(push, id) ==
    <<push.grid_base[1] + id[1] * push.grid_size[1],
      push.grid_base[2] + id[2] * push.grid_size[2]>>

CeilDiv(n, d) == (n + d - 1) \div d

\* Distance from the camera to the interval [lo, lo + len] (units), in whole cells.
AxisDistance(lo, len, camcoord, g, s) ==
    LET camN == camcoord * 2 * g
        gap == Max(0, Max(lo * s - camN, camN - (lo + len) * s))
    IN CeilDiv(gap, len * s)

\* update_lod.comp: the level is the clamped distance of the cell from the camera.
ClassifyLevel(push, id, sz) ==
    LET o == CellOffset(push, id)
        dx == AxisDistance(o[1], push.grid_size[1], push.camera_pos[1], push.num_threads[1], sz[1])
        dz == AxisDistance(o[2], push.grid_size[2], push.camera_pos[3], push.num_threads[2], sz[2])
    IN Max(0, Min(Max(dx, dz), push.max_lod))

\* Signed distance of a point from a plane <<a, b, c, d>>, scaled by 2 * gw * gh > 0.
PlaneDot(plane, pt, nt, sz) ==
    plane[1] * pt[1] * sz[1] * nt[2] + plane[3] * pt[3] * sz[2] * nt[1]
    + (plane[2] * pt[2] + plane[4]) * 2 * nt[1] * nt[2]

\* Corners of the bounding volume of a cell: its extent x heightmap_range.
CellCorners(push, id) ==
    LET o == CellOffset(push, id)
    IN {<<x, y, z>> : x \in {o[1], o[1] + push.grid_size[1]},
                      y \in {push.heightmap_range[1], push.heightmap_range[2]},
                      z \in {o[2], o[2] + push.grid_size[2]}}

\* cull_blocks.comp: inclusive test, a cell is dropped only when it lies
\* entirely on the negative side of some plane.
FrustumVisible(planes, push, id, sz) ==
    \A i \in 1..6 : \E pt \in CellCorners(push, id) :
        PlaneDot(planes[i], pt, push.num_threads, sz) >= 0

\* init_counter_buffer.comp: NUM_COUNTERS threads, each resets one indirect draw.
InitCounters(c, counters) ==
    [s \in DOMAIN counters |->
        IF s < c.num_counters
        THEN [index_count |-> c.vertex_counts[s], instance_count |-> 0]
        ELSE counters[s]]

\* Capacity of the tile buffer in records: MaxLODIndirect levels of one
\* record per cell.
LodDataRecords == grid_width * grid_height * MaxLODIndirect

\* cull_blocks.comp, one thread that sampled level lvl, on the buffers
\* st = [counters, data, slots]: if the cell is visible, atomically increment
\* the counter of lvl and write the cell's record at the pre-increment index.
CullThread(st, c, id, lvl, sz) ==
    IF FrustumVisible(c.frustum, c.push, id, sz) /\ lvl \in DOMAIN st.counters
    THEN LET offset == st.counters[lvl].instance_count
             index == offset + c.push.lod_stride * lvl
         IN [counters |-> [st.counters EXCEPT ![lvl].instance_count = offset + 1],
             data |-> IF index < LodDataRecords
                      THEN (index :> [offset |-> CellOffset(c.push, id), lod |-> lvl]) @@ st.data
                      ELSE st.data,
             slots |-> [st.slots EXCEPT ![id] =
                           [ran |-> TRUE, visible |-> TRUE, lod |-> lvl, slot |-> offset]]]
    ELSE [counters |-> st.counters,
          data |-> st.data,
          slots |-> [st.slots EXCEPT ![id] =
                        [ran |-> TRUE, visible |-> FALSE, lod |-> lvl, slot |-> NULL]]]

----------------------------------------------------------------------------
(* Execution of the recorded commands on the device *)


AllCells == (0..(grid_width - 1)) \X (0..(grid_height - 1))

Complete(c) ==
    CASE c.op = "barrier" -> TRUE
      [] c.program = "update_lod" -> {id \in DispatchThreads(c) : classified[id] = NULL} = {}
      [] c.program = "init_counter_buffer" -> counters_initialized
      [] c.program = "cull_blocks" -> {id \in DispatchThreads(c) : ~cull_slot[id].ran} = {}

\* A command may execute once every command before each earlier barrier is complete.
Ready(i) ==
    \A j \in 1..(i - 1) : cmd[j].op = "barrier" => \A k \in 1..(j - 1) : Complete(cmd[k])

PassComplete == cmd # <<>> /\ \A i \in 1..Len(cmd) : Complete(cmd[i])

----------------------------------------------------------------------------
(* Rendering: Ocean::get_render_info and RenderFunctions::ocean_render *)

\* The OceanInfo that get_render_info pushes to the render queue.
get_render_info(ql, gw, gh) ==
    [lods |-> Len(ql),
     lod_stride |-> gw * gh * LodRecordBytes,
     vbos |-> [i \in 0..(Len(ql) - 1) |-> ql[i + 1].vbo],
     ibos |-> [i \in 0..(Len(ql) - 1) |-> ql[i + 1].ibo]]

\* draw_indexed_indirect reads its parameters at a byte offset of the counter buffer.
IndirectParams(counters, offset) ==
    IF offset \div IndirectDrawBytes \in DOMAIN counters
    THEN counters[offset \div IndirectDrawBytes]
    ELSE [index_count |-> NULL, instance_count |-> NULL]

\* Body of the loop over lod in ocean_render.
DrawLod_NextSlot(info, lod, counters) ==
    [lod |-> lod,
     ubo_offset |-> info.lod_stride * lod,
     ubo_range |-> info.lod_stride,
     vbo |-> info.vbos[lod],
     ibo |-> info.ibos[lod],
     indirect_offset |-> IndirectDrawBytes * (lod + 1),
     params |-> IndirectParams(counters, IndirectDrawBytes * (lod + 1))]
DrawLod(info, lod, counters) ==
    [lod |-> lod,
     ubo_offset |-> info.lod_stride * lod,
     ubo_range |-> info.lod_stride,
     vbo |-> info.vbos[lod],
     ibo |-> info.ibos[lod],
     indirect_offset |-> IndirectDrawBytes * lod,
     params |-> IndirectParams(counters, IndirectDrawBytes * lod)]

\* for (lod = 0; lod < ocean_info.lods; lod++), for the one queued instance
ocean_render(info, counters) ==
    [k \in 1..info.lods |-> DrawLod(info, k - 1, counters)]

----------------------------------------------------------------------------
(* Inputs *)

AcceptAll == <<0, 0, 0, 1>>
PlaneXAbove == <<1, 0, 0, 0 - 1>>
PlaneZBelow == <<0, 0, 0 - 1, 0>>
PlaneTop == <<0, 0 - 1, 0, HeightmapMax>>

AcceptAllFrustum == [i \in 1..6 |-> AcceptAll]

FrustumSet ==
    {AcceptAllFrustum,
     <<PlaneXAbove, AcceptAll, PlaneTop, AcceptAll, AcceptAll, PlaneZBelow>>}

CameraSet == {<<0, 0, 0>>, <<MaxCamera, 1, 0>>, <<0 - MaxCamera, 0, MaxCamera - 1>>}

\* Grids of at most MaxCells cells
GridSet == {g \in (1..MaxCells) \X (1..MaxCells) : g[1] * g[2] <= MaxCells}

FFTSizes == [height |-> height_fft_size, displacement |-> displacement_fft_size,
             normal |-> normal_fft_size]

\* The resolutions of the pipeline configurations.
PipelineFFTSizes == [height |-> 64, displacement |-> 64, normal |-> 128]

NoBuffers == [h \in {} |-> NULL]
NoDeclarations == [n \in {} |-> NULL]
NoPhysical == [n \in {} |-> NULL]

----------------------------------------------------------------------------
(* Render graph declarations: Ocean::setup_render_pass_dependencies,       *)
(* add_lod_update_pass, add_fft_update_pass                                *)

LodBufferNames == {"ocean-lod-counter", "ocean-lod-data"}

MippedTextureNames == {"ocean-height-displacement-output",
                       "ocean-gradient-jacobian-output",
                       "ocean-normal-fft-output"}

FieldTextureNames == MippedTextureNames \cup {"ocean-height-fft-output",
                                              "ocean-displacement-fft-output"}

\* target.add_indirect_buffer_input, add_uniform_input, add_texture_input
setup_render_pass_dependencies_NoTileBuffer ==
    {"ocean-lod-counter", "ocean-lods",
     "ocean-height-displacement-output", "ocean-gradient-jacobian-output",
     "ocean-normal-fft-output"}
setup_render_pass_dependencies ==
    {"ocean-lod-counter", "ocean-lod-data", "ocean-lods",
     "ocean-height-displacement-output", "ocean-gradient-jacobian-output",
     "ocean-normal-fft-output"}

\* One storage output of a pass; levels 0 asks for a full mip chain.
Declaration(pass, kind, levels, width) ==
    [pass |-> pass, kind |-> kind, levels |-> levels, width |-> width]

\* Ocean::add_lod_update_pass
add_lod_update_pass(gw, gh, unset) ==
    ("ocean-lods" :> Declaration("ocean-update-lods", "texture", unset, gw))
    @@ ("ocean-lod-counter" :> Declaration("ocean-update-lods", "buffer", 1, MaxLODIndirect))
    @@ ("ocean-lod-data" :> Declaration("ocean-update-lods", "buffer", 1, gw * gh * MaxLODIndirect))

\* Ocean::add_fft_update_pass: the gradient-jacobian texture takes the
\* height-displacement attachment with its levels set back to 0.
add_fft_update_pass_SameLevels(ql, fft, unset) ==
    ("ocean-height-fft-input" :> Declaration("ocean-update-fft", "buffer", 1, fft.height))
    @@ ("ocean-normal-fft-input" :> Declaration("ocean-update-fft", "buffer", 1, fft.normal))
    @@ ("ocean-displacement-fft-input" :> Declaration("ocean-update-fft", "buffer", 1, fft.displacement))
    @@ ("ocean-height-fft-output" :> Declaration("ocean-update-fft", "texture", unset, fft.height))
    @@ ("ocean-normal-fft-output" :> Declaration("ocean-update-fft", "texture", unset, fft.normal))
    @@ ("ocean-displacement-fft-output" :> Declaration("ocean-update-fft", "texture", unset, fft.displacement))
    @@ ("ocean-height-displacement-output" :> Declaration("ocean-update-fft", "texture", Len(ql), fft.height))
    @@ ("ocean-gradient-jacobian-output" :> Declaration("ocean-update-fft", "texture", Len(ql), fft.height))
add_fft_update_pass(ql, fft, unset) ==
    ("ocean-height-fft-input" :> Declaration("ocean-update-fft", "buffer", 1, fft.height))
    @@ ("ocean-normal-fft-input" :> Declaration("ocean-update-fft", "buffer", 1, fft.normal))
    @@ ("ocean-displacement-fft-input" :> Declaration("ocean-update-fft", "buffer", 1, fft.displacement))
    @@ ("ocean-height-fft-output" :> Declaration("ocean-update-fft", "texture", unset, fft.height))
    @@ ("ocean-normal-fft-output" :> Declaration("ocean-update-fft", "texture", unset, fft.normal))
    @@ ("ocean-displacement-fft-output" :> Declaration("ocean-update-fft", "texture", unset, fft.displacement))
    @@ ("ocean-height-displacement-output" :> Declaration("ocean-update-fft", "texture", Len(ql), fft.height))
    @@ ("ocean-gradient-jacobian-output" :> Declaration("ocean-update-fft", "texture", 0, fft.height))

\* Ocean::add_render_passes
add_render_passes(gw, gh, ql, fft, unset) ==
    add_lod_update_pass(gw, gh, unset) @@ add_fft_update_pass(ql, fft, unset)

\* Levels of a full mip chain of a square texture: floor(log2(width)) + 1.
RECURSIVE FullMipChain(_)
FullMipChain(width) == IF width <= 1 THEN 1 ELSE 1 + FullMipChain(width \div 2)

\* The levels the graph gives a physical texture.
ResolveLevels(d) == IF d.levels = 0 THEN FullMipChain(d.width) ELSE d.levels

\* The physical resources of one allocation of the graph; gen is their identity.
Allocate(decl, gen) ==
    [n \in DOMAIN decl |->
        [name |-> n, gen |-> gen, levels |-> ResolveLevels(decl[n]), width |-> decl[n].width]]

----------------------------------------------------------------------------
(* Per-level image views: Ocean::setup_render_pass_resources *)

\* view.image = &image; view.levels = 1; view.base_level = i
View(image, i) == [image |-> image, base_level |-> i]

\* for (i = 0; i < lods; i++) views.push_back(create_image_view(view))
MipViews(image, lods) == [i \in 1..lods |-> View(image, i - 1)]

\* Ocean::setup_render_pass_resources on the lists st = [vertex, fragment, normal]
setup_render_pass_resources(st, phys, ql) ==
    IF st.vertex # <<>> /\ st.fragment # <<>> /\ st.normal # <<>>
    THEN st
    ELSE LET vertex == phys["ocean-height-displacement-output"]
             fragment == phys["ocean-gradient-jacobian-output"]
             normal == phys["ocean-normal-fft-output"]
         IN [vertex |-> st.vertex \o MipViews(vertex, Min(Len(ql), vertex.levels)),
             fragment |-> st.fragment \o MipViews(fragment, fragment.levels),
             normal |-> st.normal \o MipViews(normal, normal.levels)]

----------------------------------------------------------------------------
(* Commands recorded by Ocean::update_fft_pass *)

\* What a binding refers to: one level of a physical resource.
Level(image, l) == [name |-> image.name, gen |-> image.gen, level |-> l]
ViewLevel(v) == Level(v.image, v.base_level)
AllLevels(image) == {Level(image, l) : l \in 0..(image.levels - 1)}
\* a buffer created by the device, by its handle
DeviceBuffer(name, handle) == {[name |-> name, gen |-> handle, level |-> 0]}

\* Image::get_width(level), get_height(level)
MipWidth(image, l) == Max(1, image.width \div Pow2(l))

\* One modulation dispatch of update_fft_input.
GenerateFft(variant, mod, n, extent, time, distribution, input) ==
    [op |-> "dispatch", program |-> "generate_fft", variant |-> variant,
     push |-> [mod |-> mod, N |-> <<n, n>>, time |-> time],
     groups |-> <<extent \div 64, extent, 1>>,
     reads |-> distribution,
     writes |-> AllLevels(input)]

\* Ocean::update_fft_input
update_fft_input(fft, dist, time, phys) ==
    <<GenerateFft("height", "size", fft.height, fft.height, time,
                  DeviceBuffer("distribution", dist.height), phys["ocean-height-fft-input"]),
      GenerateFft("displacement", "size", fft.normal, fft.displacement, time,
                  DeviceBuffer("distribution-displacement", dist.displacement),
                  phys["ocean-displacement-fft-input"]),
      GenerateFft("normal", "size_normal", fft.normal, fft.normal, time,
                  DeviceBuffer("distribution-normal", dist.normal), phys["ocean-normal-fft-input"])>>

\* One GLFFT::FFT::process of compute_fft, of the plan made for size n.
ProcessFft(variant, n, input, output) ==
    [op |-> "dispatch", program |-> "fft", variant |-> variant,
     push |-> [N |-> <<n, n>>],
     groups |-> <<n \div 64, n, 1>>,
     reads |-> AllLevels(input),
     writes |-> output]

\* Ocean::compute_fft: height, normal (into the first normal view), displacement
compute_fft(fft, phys, views) ==
    <<ProcessFft("height", fft.height, phys["ocean-height-fft-input"],
                 AllLevels(phys["ocean-height-fft-output"])),
      ProcessFft("normal", fft.normal, phys["ocean-normal-fft-input"],
                 {ViewLevel(Head(views.normal))}),
      ProcessFft("displacement", fft.displacement, phys["ocean-displacement-fft-input"],
                 AllLevels(phys["ocean-displacement-fft-output"]))>>

\* Ocean::bake_maps
bake_maps(fft, phys, views) ==
    [op |-> "dispatch", program |-> "bake_maps", variant |-> "",
     push |-> [inv_size |-> <<fft.height, fft.displacement>>],
     groups |-> <<(fft.height + 7) \div 8, (fft.height + 7) \div 8, 1>>,
     reads |-> AllLevels(phys["ocean-height-fft-output"])
               \cup AllLevels(phys["ocean-displacement-fft-output"]),
     writes |-> {ViewLevel(Head(views.vertex)), ViewLevel(Head(views.fragment))}]

\* cmd.barrier(COMPUTE, SHADER_WRITE, COMPUTE, SHADER_READ)
ReadBarrier == [op |-> "barrier", src_access |-> "write", dst_access |-> "read"]

\* One downsampling dispatch of generate_mipmaps: level i of list from level i - 1.
MipDispatch_FromBase(variant, list, i) ==
    LET image == Head(list).image
    IN [op |-> "dispatch", program |-> "mipmap", variant |-> variant,
        push |-> [lod |-> i - 1,
                  inv_resolution |-> <<MipWidth(image, i - 1), MipWidth(image, i - 1)>>,
                  count |-> <<MipWidth(image, i), MipWidth(image, i)>>],
        groups |-> <<(MipWidth(image, i) + 7) \div 8, (MipWidth(image, i) + 7) \div 8, 1>>,
        reads |-> {ViewLevel(list[1])},
        writes |-> {ViewLevel(list[i + 1])}]
MipDispatch(variant, list, i) ==
    LET image == Head(list).image
    IN [op |-> "dispatch", program |-> "mipmap", variant |-> variant,
        push |-> [lod |-> i - 1,
                  inv_resolution |-> <<MipWidth(image, i - 1), MipWidth(image, i - 1)>>,
                  count |-> <<MipWidth(image, i), MipWidth(image, i)>>],
        groups |-> <<(MipWidth(image, i) + 7) \div 8, (MipWidth(image, i) + 7) \div 8, 1>>,
        reads |-> {ViewLevel(list[i])},
        writes |-> {ViewLevel(list[i + 1])}]

\* The body of the loop of generate_mipmaps for pass i.
MipPass(i, phys, views) ==
    <<ReadBarrier>>
    \o (IF i < Len(views.vertex)
        THEN <<MipDispatch("RGBA16F_TEXEL_CENTER", views.vertex, i)>> ELSE <<>>)
    \o (IF i < Len(views.fragment)
        THEN <<MipDispatch("RGBA16F", views.fragment, i)>> ELSE <<>>)
    \o (IF i < phys["ocean-normal-fft-output"].levels
        THEN <<MipDispatch("RG16F", views.normal, i)>> ELSE <<>>)

\* for (i = 1; i < num_passes; i++)
RECURSIVE MipPasses(_, _, _, _)
MipPasses(i, num_passes, phys, views) ==
    IF i >= num_passes THEN <<>>
    ELSE MipPass(i, phys, views) \o MipPasses(i + 1, num_passes, phys, views)

\* Ocean::generate_mipmaps
generate_mipmaps(phys, views) ==
    LET num_passes == Max(Max(Len(views.vertex), Len(views.fragment)),
                          phys["ocean-normal-fft-output"].levels)
    IN MipPasses(1, num_passes, phys, views)

\* Ocean::update_fft_pass
update_fft_pass_NoBarrierBeforeBake(fft, dist, time, phys, views) ==
    update_fft_input(fft, dist, time, phys)
    \o <<ReadBarrier>>
    \o compute_fft(fft, phys, views)
    \o <<bake_maps(fft, phys, views)>>
    \o generate_mipmaps(phys, views)
update_fft_pass(fft, dist, time, phys, views) ==
    update_fft_input(fft, dist, time, phys)
    \o <<ReadBarrier>>
    \o compute_fft(fft, phys, views)
    \o <<ReadBarrier>>
    \o <<bake_maps(fft, phys, views)>>
    \o generate_mipmaps(phys, views)

----------------------------------------------------------------------------
(* Initial state: the object as constructed, the render graph's resources  *)
(* allocated but never written.                                            *)

\* build_buffers not entered
NotBuilding == [lodsize |-> 0, stride |-> 0, tiers |-> 0, vertex |-> <<>>, index |-> <<>>]

InitDevice ==
    /\ build = NotBuilding
    /\ device_alive = FALSE
    /\ device_events = 0
    /\ buffers = NoBuffers
    /\ quad_lod = <<>>
    /\ distribution_buffer = NULL
    /\ distribution_buffer_displacement = NULL
    /\ distribution_buffer_normal = NULL

InitGpu ==
    /\ cmd = <<>>
    /\ counters_initialized = FALSE
    /\ ocean_lod = [t \in AllCells |-> NULL]
    /\ \E g \in 0..MaxGarbage :
          lod_data_counters = [s \in 0..(MaxLODIndirect - 1) |->
                                  [index_count |-> g, instance_count |-> g]]
    /\ lod_data = [r \in {} |-> NULL]
    /\ classified = [id \in AllCells |-> NULL]
    /\ cull_slot = [id \in AllCells |-> NotRun]
    /\ draws = <<>>

\* The FFT sizes of the pipeline configurations; unset attachment levels are 1.
InitFftConfig ==
    /\ height_fft_size = PipelineFFTSizes.height
    /\ displacement_fft_size = PipelineFFTSizes.displacement
    /\ normal_fft_size = PipelineFFTSizes.normal
    /\ attachment_levels = 1

\* No render pass added to a graph yet, no view cached, nothing recorded.
InitGraph ==
    /\ declared = NoDeclarations
    /\ target_inputs = {}
    /\ physical = NoPhysical
    /\ reallocations = 0
    /\ vertex_mip_views = <<>>
    /\ fragment_mip_views = <<>>
    /\ normal_mip_views = <<>>
    /\ resources_ready = FALSE
    /\ fft_cmd = <<>>
    /\ fft_pc = 0
    /\ written = {}

\* Configurations of the pipeline: a grid, a resolution with one tier or with
\* as many as MaxResolution gives, one world size.
InitConfig ==
    /\ \E g \in GridSet : grid_width = g[1] /\ grid_height = g[2]
    /\ grid_resolution \in {2, MaxResolution}
    /\ size = <<WorldSize, WorldSize>>
    /\ last_camera_position = <<0, 0, 0>>
    /\ current_time = 0
    /\ frustum = AcceptAllFrustum
    /\ InitFftConfig
    /\ InitGraph

\* What on_device_created leaves from the state st: build_buffers, then the
\* three create_buffer calls of init_distributions.
DeviceCreated(st, res) ==
    LET built == build_buffers(st, res)
        height == create_buffer(built, DistributionData(FFTSizes.height))
        displacement == create_buffer(height, DistributionData(FFTSizes.displacement))
        normal == create_buffer(displacement, DistributionData(FFTSizes.normal))
    IN [quad_lod |-> normal.quad_lod,
        distribution_buffer |-> height.handle,
        distribution_buffer_displacement |-> displacement.handle,
        distribution_buffer_normal |-> normal.handle,
        buffers |-> normal.buffers]

\* The device exists when the ocean is constructed: registering the latch
\* handler delivers on_device_created at once.
InitDeviceCreated ==
    LET d == DeviceCreated(DeviceState(<<>>, NoBuffers, {}), grid_resolution)
    IN /\ build = NotBuilding
       /\ device_alive = TRUE
       /\ device_events = 1
       /\ buffers = d.buffers
       /\ quad_lod = d.quad_lod
       /\ distribution_buffer = d.distribution_buffer
       /\ distribution_buffer_displacement = d.distribution_buffer_displacement
       /\ distribution_buffer_normal = d.distribution_buffer_normal

Init == InitConfig /\ InitDeviceCreated /\ InitGpu /\ frame = 0

----------------------------------------------------------------------------
(* Operations *)

\* Ocean::on_device_created: build_buffers, then init_distributions, on a
\* device that fails the create_buffer calls numbered in fails.
OnDeviceCreated(fails) ==
    /\ ~device_alive
    /\ device_events < MaxDeviceEvents
    /\ LET d == DeviceCreated(DeviceState(quad_lod, buffers, fails), grid_resolution)
       IN /\ quad_lod' = d.quad_lod
          /\ distribution_buffer' = d.distribution_buffer
          /\ distribution_buffer_displacement' = d.distribution_buffer_displacement
          /\ distribution_buffer_normal' = d.distribution_buffer_normal
          /\ buffers' = d.buffers
    /\ device_alive' = TRUE
    /\ device_events' = device_events + 1
    /\ UNCHANGED <<config_vars, graph_vars, view_vars, fft_vars, input_vars, frame, cmd, gpu_vars, draws,
                   build>>

\* Ocean::on_device_destroyed
OnDeviceDestroyed_KeepsTable ==
    /\ device_alive
    /\ cmd = <<>>
    /\ quad_lod' = quad_lod
    /\ distribution_buffer' = NULL
    /\ distribution_buffer_displacement' = NULL
    /\ distribution_buffer_normal' = NULL
    /\ buffers' = NoBuffers
    /\ device_alive' = FALSE
    /\ fft_cmd = <<>>
    /\ vertex_mip_views' = <<>>
    /\ fragment_mip_views' = <<>>
    /\ normal_mip_views' = <<>>
    \* the graph's passes and physical resources go with the device
    /\ declared' = NoDeclarations
    /\ target_inputs' = {}
    /\ physical' = NoPhysical
    /\ resources_ready' = FALSE
    /\ UNCHANGED <<config_vars, device_events, input_vars, frame, cmd, gpu_vars, draws,
                   reallocations, fft_cmd, fft_pc, written, build>>
OnDeviceDestroyed ==
    /\ device_alive
    /\ cmd = <<>>
    /\ quad_lod' = <<>>
    /\ distribution_buffer' = NULL
    /\ distribution_buffer_displacement' = NULL
    /\ distribution_buffer_normal' = NULL
    /\ buffers' = NoBuffers
    /\ device_alive' = FALSE
    /\ fft_cmd = <<>>
    /\ vertex_mip_views' = <<>>
    /\ fragment_mip_views' = <<>>
    /\ normal_mip_views' = <<>>
    \* the graph's passes and physical resources go with the device
    /\ declared' = NoDeclarations
    /\ target_inputs' = {}
    /\ physical' = NoPhysical
    /\ resources_ready' = FALSE
    /\ UNCHANGED <<config_vars, device_events, input_vars, frame, cmd, gpu_vars, draws,
                   reallocations, fft_cmd, fft_pc, written, build>>

\* The frame's render context is set up and Ocean::refresh latches the camera.
Refresh(cam, planes) ==
    /\ cmd = <<>>
    /\ frame < MaxFrames
    /\ last_camera_position' = cam
    /\ frustum' = planes
    /\ UNCHANGED <<config_vars, graph_vars, view_vars, fft_vars, device_vars, frame, cmd, gpu_vars, draws,
                   current_time>>

\* Ocean::on_frame_tick latches the elapsed time.
OnFrameTick(t) ==
    /\ current_time' = t
    /\ UNCHANGED <<config_vars, graph_vars, view_vars, fft_vars, device_vars, frame, cmd, gpu_vars, draws,
                   last_camera_position, frustum>>

\* Ocean::update_lod_pass records the pass; the dispatches start from scratch.
UpdateLodPass ==
    /\ device_alive
    /\ cmd = <<>>
    /\ frame < MaxFrames
    /\ frame' = frame + 1
    /\ cmd' = update_lod_pass(last_camera_position, grid_width, grid_height, size,
                              grid_resolution, quad_lod, frustum)
    /\ counters_initialized' = FALSE
    /\ classified' = [id \in AllCells |-> NULL]
    /\ cull_slot' = [id \in AllCells |-> NotRun]
    /\ UNCHANGED <<config_vars, graph_vars, view_vars, fft_vars, device_vars, input_vars, ocean_lod, lod_data_counters,
                   lod_data, draws>>

\* One thread of update_lod.comp
ExecUpdateLod(i, id) ==
    /\ cmd[i].op = "dispatch" /\ cmd[i].program = "update_lod"
    /\ Ready(i)
    /\ id \in DispatchThreads(cmd[i])
    /\ classified[id] = NULL
    /\ LET lvl == ClassifyLevel(cmd[i].push, id, size)
       IN /\ ocean_lod' = [ocean_lod EXCEPT ![Texel(cmd[i].push, id)] = lvl]
          /\ classified' = [classified EXCEPT ![id] = lvl]
    /\ UNCHANGED <<config_vars, graph_vars, view_vars, fft_vars, device_vars, input_vars, frame, cmd, counters_initialized,
                   lod_data_counters, lod_data, cull_slot, draws>>

\* The workgroup of init_counter_buffer.comp
ExecInitCounter(i) ==
    /\ cmd[i].op = "dispatch" /\ cmd[i].program = "init_counter_buffer"
    /\ Ready(i)
    /\ ~counters_initialized
    /\ counters_initialized' = TRUE
    /\ lod_data_counters' = InitCounters(cmd[i], lod_data_counters)
    /\ UNCHANGED <<config_vars, graph_vars, view_vars, fft_vars, device_vars, input_vars, frame, cmd, ocean_lod, lod_data,
                   classified, cull_slot, draws>>

\* One thread of cull_blocks.comp: sample the level, test the frustum and append
\* with an atomic increment.  A texel never written holds an arbitrary level.
ExecCull(i, id) ==
    /\ cmd[i].op = "dispatch" /\ cmd[i].program = "cull_blocks"
    /\ Ready(i)
    /\ id \in DispatchThreads(cmd[i])
    /\ ~cull_slot[id].ran
    /\ LET texel == ocean_lod[Texel(cmd[i].push, id)]
       IN \E lvl \in (IF texel = NULL THEN 0..MaxGarbage ELSE {texel}) :
            LET st == CullThread([counters |-> lod_data_counters, data |-> lod_data,
                                  slots |-> cull_slot], cmd[i], id, lvl, size)
            IN /\ lod_data_counters' = st.counters
               /\ lod_data' = st.data
               /\ cull_slot' = st.slots
    /\ UNCHANGED <<config_vars, graph_vars, view_vars, fft_vars, device_vars, input_vars, frame, cmd, counters_initialized,
                   ocean_lod, classified, draws>>

\* The render pass: get_render_info queues the ocean, ocean_render draws it.
Render ==
    /\ device_alive
    /\ PassComplete
    /\ draws' = ocean_render(get_render_info(quad_lod, grid_width, grid_height),
                             lod_data_counters)
    /\ cmd' = <<>>
    \* the render pass consumes the FFT pass's outputs as well
    /\ fft_pc = Len(fft_cmd)
    /\ fft_cmd' = <<>>
    /\ fft_pc' = 0
    /\ written' = {}
    /\ resources_ready' = FALSE
    /\ UNCHANGED <<config_vars, graph_vars, view_vars, device_vars, input_vars, frame, gpu_vars>>

\* The frame pipeline on a live device.
Next ==
    \/ \E cam \in CameraSet, planes \in FrustumSet : Refresh(cam, planes)
    \/ UpdateLodPass
    \/ \E i \in 1..Len(cmd), id \in AllCells : ExecUpdateLod(i, id)
    \/ \E i \in 1..Len(cmd) : ExecInitCounter(i)
    \/ \E i \in 1..Len(cmd), id \in AllCells : ExecCull(i, id)
    \/ Render

Spec == Init /\ [][Next]_vars

\* The device lifecycle of an ocean constructed before the device exists, for
\* every tessellation resolution.
InitLifecycle ==
    /\ \E g \in GridSet : grid_width = g[1] /\ grid_height = g[2]
    /\ grid_resolution \in 2..MaxMeshResolution
    /\ size = <<WorldSize, WorldSize>>
    /\ last_camera_position = <<0, 0, 0>>
    /\ current_time = 0
    /\ frustum = AcceptAllFrustum
    /\ InitFftConfig
    /\ InitGraph
    /\ InitDevice
    /\ InitGpu
    /\ frame = 0

NextLifecycle ==
    \/ OnDeviceCreated({})
    \/ OnDeviceDestroyed
    \/ \E cam \in CameraSet, planes \in FrustumSet : Refresh(cam, planes)

SpecLifecycle == InitLifecycle /\ [][NextLifecycle]_vars

----------------------------------------------------------------------------
(* The same pipeline on a device that runs each dispatch to completion, its  *)
(* threads in row-major order, for grids around the workgroup size and the   *)
(* 64 x 64 grid over a 1000 x 1000 world.  The pass runs once, as the last    *)
(* frame the bound admits, on buffers never written.                         *)

Scenario == [grid |-> <<64, 64>>, size |-> <<1000, 1000>>]

WholeGridConfigs ==
    {Scenario,
     [grid |-> <<WorkGroupSize - 1, 1>>, size |-> <<WorldSize, WorldSize>>],
     [grid |-> <<WorkGroupSize, 2>>, size |-> <<WorldSize, WorldSize + 1>>],
     [grid |-> <<WorkGroupSize + 1, 1>>, size |-> <<WorldSize, WorldSize>>],
     [grid |-> <<1, 2 * WorkGroupSize + 1>>, size |-> <<WorldSize + 1, WorldSize>>]}

WholeGridCameras == {<<0, 0, 0>>, <<MaxCamera, 1, 0 - MaxCamera>>, <<0 - 24, 0, 40>>}

InitWholeGrid ==
    /\ \E cfg \in WholeGridConfigs :
          grid_width = cfg.grid[1] /\ grid_height = cfg.grid[2] /\ size = cfg.size
    /\ grid_resolution \in {2, MaxResolution}
    /\ (grid_width = Scenario.grid[1] => grid_resolution = MaxResolution)
    /\ last_camera_position = <<0, 0, 0>>
    /\ current_time = 0
    /\ frustum = AcceptAllFrustum
    /\ InitFftConfig
    /\ InitGraph
    /\ InitDeviceCreated
    /\ InitGpu
    /\ frame = MaxFrames - 1

\* Every thread of the update_lod.comp dispatch
ExecUpdateLodAll(i) ==
    /\ cmd[i].op = "dispatch" /\ cmd[i].program = "update_lod"
    /\ Ready(i)
    /\ ~(\A id \in AllCells : classified[id] # NULL)
    /\ LET c == cmd[i]
           threads == DispatchThreads(c)
           \* the thread that addresses texel t
           Source(t) == <<(t[1] - c.push.image_offset[1]) % c.push.num_threads[1],
                          (t[2] - c.push.image_offset[2]) % c.push.num_threads[2]>>
       IN /\ threads # {}
          /\ classified' = [id \in AllCells |->
                               IF id \in threads THEN ClassifyLevel(c.push, id, size)
                               ELSE classified[id]]
          /\ ocean_lod' = [t \in AllCells |->
                              IF Source(t) \in threads
                              THEN ClassifyLevel(c.push, Source(t), size)
                              ELSE ocean_lod[t]]
    /\ UNCHANGED <<config_vars, graph_vars, view_vars, fft_vars, device_vars, input_vars, frame, cmd, counters_initialized,
                   lod_data_counters, lod_data, cull_slot, draws>>

\* The level a cull thread samples; a texel never written reads as level 0 here.
SampledLevel(c, id) ==
    LET texel == ocean_lod[Texel(c.push, id)] IN IF texel = NULL THEN 0 ELSE texel

\* The threads <<x, y>>, <<x + 1, y>>, ... of row y, one after the other.
RECURSIVE CullRow(_, _, _, _, _)
CullRow(st, c, x, y, sz) ==
    IF x >= Min(c.push.num_threads[1], c.groups[1] * WorkGroupSize) THEN st
    ELSE LET after == CullThread(st, c, <<x, y>>, SampledLevel(c, <<x, y>>), sz)
         IN IF after.slots[<<x, y>>].ran THEN CullRow(after, c, x + 1, y, sz) ELSE after

\* The rows y, y + 1, ... one after the other.
RECURSIVE CullRows(_, _, _, _)
CullRows(st, c, y, sz) ==
    IF y >= Min(c.push.num_threads[2], c.groups[2] * WorkGroupSize) THEN st
    ELSE LET after == CullRow(st, c, 0, y, sz)
         IN IF after.slots[<<0, y>>].ran THEN CullRows(after, c, y + 1, sz) ELSE after

\* Every thread of the cull_blocks.comp dispatch
ExecCullAll(i) ==
    /\ cmd[i].op = "dispatch" /\ cmd[i].program = "cull_blocks"
    /\ Ready(i)
    /\ ~(\A id \in AllCells : cull_slot[id].ran)
    /\ DispatchThreads(cmd[i]) # {}
    /\ LET st == CullRows([counters |-> lod_data_counters, data |-> lod_data,
                           slots |-> cull_slot], cmd[i], 0, size)
       IN /\ lod_data_counters' = st.counters
          /\ lod_data' = st.data
          /\ cull_slot' = st.slots
    /\ UNCHANGED <<config_vars, graph_vars, view_vars, fft_vars, device_vars, input_vars, frame, cmd, counters_initialized,
                   ocean_lod, classified, draws>>

NextWholeGrid ==
    \/ \E cam \in WholeGridCameras, planes \in FrustumSet : Refresh(cam, planes)
    \/ UpdateLodPass
    \/ \E i \in 1..Len(cmd) : ExecUpdateLodAll(i)
    \/ \E i \in 1..Len(cmd) : ExecInitCounter(i)
    \/ \E i \in 1..Len(cmd) : ExecCullAll(i)
    \/ Render

SpecWholeGrid == InitWholeGrid /\ [][NextWholeGrid]_vars

----------------------------------------------------------------------------
(* The render graph around the ocean: passes added, physical resources     *)
(* allocated and reallocated, views set up, and the FFT update pass         *)
(* recorded and executed in order each frame.                              *)

MaxReallocations == 2
MaxAttachmentLevels == 3

FftConfigs ==
    {PipelineFFTSizes,
     [height |-> 128, displacement |-> 128, normal |-> 128],
     [height |-> 256, displacement |-> 128, normal |-> 256]}

CachedViews == [vertex |-> vertex_mip_views, fragment |-> fragment_mip_views,
                normal |-> normal_mip_views]

Distributions == [height |-> distribution_buffer,
                  displacement |-> distribution_buffer_displacement,
                  normal |-> distribution_buffer_normal]

NoFrameInFlight == cmd = <<>> /\ fft_cmd = <<>> /\ ~resources_ready

\* Ocean::add_render_passes, called once the device and the mesh table exist.
AddRenderPasses ==
    /\ device_alive
    /\ declared = NoDeclarations
    /\ NoFrameInFlight
    /\ declared' = add_render_passes(grid_width, grid_height, quad_lod, FFTSizes,
                                     attachment_levels)
    /\ UNCHANGED <<config_vars, device_vars, input_vars, frame, cmd, gpu_vars, draws,
                   target_inputs, physical, reallocations, view_vars, fft_vars>>

\* Ocean::setup_render_pass_dependencies on the render pass that draws the ocean.
SetupRenderPassDependencies ==
    /\ device_alive
    /\ declared # NoDeclarations
    /\ target_inputs = {}
    /\ target_inputs' = setup_render_pass_dependencies
    /\ UNCHANGED <<config_vars, device_vars, input_vars, frame, cmd, gpu_vars, draws,
                   declared, physical, reallocations, view_vars, fft_vars>>

\* The graph allocates its physical resources; after the first time this is a
\* reallocation and every resource gets a new identity.
Bake ==
    /\ device_alive
    /\ declared # NoDeclarations
    /\ NoFrameInFlight
    /\ reallocations < MaxReallocations
    /\ reallocations' = reallocations + 1
    /\ physical' = Allocate(declared, reallocations + 1)
    /\ UNCHANGED <<config_vars, device_vars, input_vars, frame, cmd, gpu_vars, draws,
                   declared, target_inputs, view_vars, fft_vars>>

\* Ocean::setup_render_pass_resources, before the passes of a frame are built.
SetupRenderPassResources ==
    /\ device_alive
    /\ physical # NoPhysical
    /\ NoFrameInFlight
    /\ LET st == setup_render_pass_resources(CachedViews, physical, quad_lod)
       IN /\ vertex_mip_views' = st.vertex
          /\ fragment_mip_views' = st.fragment
          /\ normal_mip_views' = st.normal
    /\ resources_ready' = TRUE
    /\ UNCHANGED <<config_vars, device_vars, input_vars, frame, cmd, gpu_vars, draws,
                   graph_vars, fft_cmd, fft_pc, written>>

\* Ocean::update_fft_pass records the pass.
UpdateFftPass ==
    /\ device_alive
    /\ resources_ready
    /\ fft_cmd = <<>>
    /\ fft_cmd' = update_fft_pass(FFTSizes, Distributions, current_time, physical, CachedViews)
    /\ fft_pc' = 0
    /\ written' = {}
    /\ UNCHANGED <<config_vars, device_vars, input_vars, frame, cmd, gpu_vars, draws,
                   graph_vars, view_vars, resources_ready>>

\* The device executes the next command of the FFT pass.  A dispatch writes
\* the resources bound to it for writing: what it leaves in a tile or counter
\* buffer bound that way is arbitrary.
ExecFft ==
    /\ fft_pc < Len(fft_cmd)
    /\ LET c == fft_cmd[fft_pc + 1]
           w == IF c.op = "dispatch" THEN c.writes ELSE {}
       IN /\ written' = written \cup w
          /\ lod_data' = IF \E r \in w : r.name = "ocean-lod-data"
                         THEN [r \in {} |-> NULL] ELSE lod_data
          /\ IF \E r \in w : r.name = "ocean-lod-counter"
             THEN \E g \in 0..MaxGarbage :
                     lod_data_counters' = [s \in DOMAIN lod_data_counters |->
                                              [index_count |-> g, instance_count |-> g]]
             ELSE lod_data_counters' = lod_data_counters
    /\ fft_pc' = fft_pc + 1
    /\ UNCHANGED <<config_vars, device_vars, input_vars, frame, cmd, counters_initialized,
                   ocean_lod, classified, cull_slot, draws, graph_vars, view_vars,
                   resources_ready, fft_cmd>>

\* An ocean of two cells whose device exists, for every FFT configuration of
\* FftConfigs, with one tier or three, and unset attachment levels of 1 or
\* MaxAttachmentLevels.
InitFft ==
    /\ grid_width = 2 /\ grid_height = 1
    /\ grid_resolution \in {2, MaxResolution}
    /\ size = <<WorldSize, WorldSize>>
    /\ last_camera_position = <<0, 0, 0>>
    /\ current_time = 0
    /\ frustum = AcceptAllFrustum
    /\ \E cfg \in FftConfigs :
          /\ height_fft_size = cfg.height
          /\ displacement_fft_size = cfg.displacement
          /\ normal_fft_size = cfg.normal
    /\ attachment_levels \in {1, MaxAttachmentLevels}
    /\ InitGraph
    /\ InitDeviceCreated
    /\ InitGpu
    /\ frame = 0

NextFft ==
    \/ OnDeviceCreated({})
    \/ OnDeviceDestroyed
    \/ AddRenderPasses
    \/ SetupRenderPassDependencies
    \/ Bake
    \/ SetupRenderPassResources
    \/ UpdateLodPass
    \/ \E i \in 1..Len(cmd) : ExecUpdateLodAll(i)
    \/ \E i \in 1..Len(cmd) : ExecInitCounter(i)
    \/ \E i \in 1..Len(cmd) : ExecCullAll(i)
    \/ UpdateFftPass
    \/ ExecFft
    \/ Render

SpecFft == InitFft /\ [][NextFft]_vars

----------------------------------------------------------------------------
(* Grids with a zero dimension: the object is constructed, the device is   *)
(* created and the frames run as for any other configuration.              *)

ZeroGridSet == {g \in (0..MaxCells) \X (0..MaxCells) : g[1] = 0 \/ g[2] = 0}

InitZeroGrid ==
    /\ \E g \in ZeroGridSet : grid_width = g[1] /\ grid_height = g[2]
    /\ grid_resolution \in {2, MaxResolution}
    /\ size = <<WorldSize, WorldSize>>
    /\ last_camera_position = <<0, 0, 0>>
    /\ current_time = 0
    /\ frustum = AcceptAllFrustum
    /\ InitFftConfig
    /\ InitGraph
    /\ InitDevice
    /\ InitGpu
    /\ frame = 0

NextZeroGrid ==
    \/ OnDeviceCreated({})
    \/ \E cam \in CameraSet, planes \in FrustumSet : Refresh(cam, planes)
    \/ UpdateLodPass
    \/ \E i \in 1..Len(cmd) : ExecInitCounter(i)
    \/ Render

SpecZeroGrid == InitZeroGrid /\ [][NextZeroGrid]_vars

----------------------------------------------------------------------------
(* Whole frames across device events: every per-frame operation of the     *)
(* ocean (refresh, frame tick, LOD pass, FFT pass, render) between          *)
(* device-created and device-destroyed events, on a grid of one cell.      *)

MaxTime == 1

FrameResolutions == {2, MaxResolution}

FrameCameras == {<<0, 0, 0>>, <<MaxCamera, 1, 0>>}

InitFrames ==
    /\ grid_width = 1 /\ grid_height = 1
    /\ grid_resolution \in FrameResolutions
    /\ size = <<WorldSize, WorldSize>>
    /\ last_camera_position = <<0, 0, 0>>
    /\ current_time = 0
    /\ frustum = AcceptAllFrustum
    /\ InitFftConfig
    /\ InitGraph
    /\ InitDevice
    /\ InitGpu
    /\ frame = 0

NextFrames ==
    \/ OnDeviceCreated({})
    \/ OnDeviceDestroyed
    \/ \E cam \in FrameCameras : Refresh(cam, AcceptAllFrustum)
    \/ \E t \in 0..MaxTime : OnFrameTick(t)
    \/ AddRenderPasses
    \/ SetupRenderPassDependencies
    \/ Bake
    \/ SetupRenderPassResources
    \/ UpdateLodPass
    \/ \E i \in 1..Len(cmd) : ExecUpdateLodAll(i)
    \/ \E i \in 1..Len(cmd) : ExecInitCounter(i)
    \/ \E i \in 1..Len(cmd) : ExecCullAll(i)
    \/ UpdateFftPass
    \/ ExecFft
    \/ Render

SpecFrames == InitFrames /\ [][NextFrames]_vars

----------------------------------------------------------------------------
(* build_buffers followed step by step: the iterations of its loop and,    *)
(* within one build_lod, single iterations of the vertex and index loops.  *)
(* The buffers are left out, so that resolutions up to MaxStepResolution    *)
(* can be followed.                                                         *)

MaxStepResolution == 512

StepResolutions == {2, 3, MaxResolution, 254, 255, 256, MaxStepResolution - 1, MaxStepResolution}

\* First and last value of for (v = 0; v <= to; v += step)
LoopEnds(to, step) == {0, (to \div step) * step}

OtherVars == <<config_vars, input_vars, frame, cmd, gpu_vars, draws, graph_vars, view_vars,
               fft_vars, device_alive, device_events, buffers, quad_lod, distribution_buffer,
               distribution_buffer_displacement, distribution_buffer_normal>>

\* Ocean::build_buffers is entered: size = grid_resolution, stride = 1
BuildBuffers ==
    /\ build = NotBuilding
    /\ build' = [NotBuilding EXCEPT !.lodsize = grid_resolution, !.stride = 1]
    /\ UNCHANGED OtherVars

\* One iteration of the vertex loops of build_lod: the vertex stored for a
\* first or last (x, y)
BuildLodVertex ==
    /\ build.stride > 0 /\ KeepBuilding(build.lodsize)
    /\ build.index = <<>>
    /\ \E x \in LoopEnds(grid_resolution, build.stride), y \in LoopEnds(grid_resolution, build.stride) :
          build' = [build EXCEPT !.vertex = <<[x |-> x, y |-> y,
                                               stored |-> OceanVertex(x, y, grid_resolution)]>>]
    /\ UNCHANGED OtherVars

\* One iteration of the index loops of build_lod: the two indices pushed for
\* a first or last column x of a first or last slice
BuildLodIndex ==
    /\ build.stride > 0 /\ KeepBuilding(build.lodsize)
    /\ \E slice \in LoopEnds(build.lodsize - 1, 1), x \in LoopEnds(build.lodsize, 1) :
          LET base == slice * (build.lodsize + 1)
          IN build' = [build EXCEPT !.index = <<[pushed |-> <<base + x, base + build.lodsize + 1 + x>>,
                                                 stored |-> StripPair(x, base, build.lodsize)]>>]
    /\ UNCHANGED OtherVars

\* build_lod returns and the loop of build_buffers goes on: size >>= 1, stride <<= 1
BuildLodDone ==
    /\ build.stride > 0 /\ KeepBuilding(build.lodsize)
    /\ build' = [lodsize |-> build.lodsize \div 2, stride |-> build.stride * 2,
                 tiers |-> build.tiers + 1, vertex |-> <<>>, index |-> <<>>]
    /\ UNCHANGED OtherVars

InitBuildSteps ==
    /\ grid_width = 1 /\ grid_height = 1
    /\ grid_resolution \in StepResolutions
    /\ size = <<WorldSize, WorldSize>>
    /\ last_camera_position = <<0, 0, 0>>
    /\ current_time = 0
    /\ frustum = AcceptAllFrustum
    /\ InitFftConfig
    /\ InitGraph
    /\ InitDevice
    /\ InitGpu
    /\ frame = 0

NextBuildSteps ==
    \/ BuildBuffers
    \/ BuildLodVertex
    \/ BuildLodIndex
    \/ BuildLodDone

SpecBuildSteps == InitBuildSteps /\ [][NextBuildSteps]_vars

----------------------------------------------------------------------------
(* A device that runs out of memory: some create_buffer calls of            *)
(* on_device_created fail, and the frames run on what the handler left.    *)

MaxFailingCall == 8

\* One failing call, or every call from some call on.
FailureSets ==
    {{k} : k \in 0..MaxFailingCall}
    \cup {k..(MaxFailingCall + 2 * MaxResolution) : k \in 0..MaxFailingCall}

InitOutOfMemory ==
    /\ grid_width = 1 /\ grid_height = 1
    /\ grid_resolution \in 2..MaxResolution
    /\ size = <<WorldSize, WorldSize>>
    /\ last_camera_position = <<0, 0, 0>>
    /\ current_time = 0
    /\ frustum = AcceptAllFrustum
    /\ InitFftConfig
    /\ InitGraph
    /\ InitDevice
    /\ InitGpu
    /\ frame = 0

NextOutOfMemory ==
    \/ \E fails \in FailureSets : OnDeviceCreated(fails)
    \/ OnDeviceDestroyed
    \/ UpdateLodPass
    \/ \E i \in 1..Len(cmd) : ExecUpdateLodAll(i)
    \/ \E i \in 1..Len(cmd) : ExecInitCounter(i)
    \/ \E i \in 1..Len(cmd) : ExecCullAll(i)
    \/ Render

SpecOutOfMemory == InitOutOfMemory /\ [][NextOutOfMemory]_vars

----------------------------------------------------------------------------
(* Properties of the culler and the renderer *)

CounterSlots == 0..(MaxLODIndirect - 1)

\* The push constants and planes of the frame, as the cull pass receives them.
FramePush == cull_blocks(last_camera_position, grid_width, grid_height, size,
                         grid_resolution, frustum).push

\* The cell lies strictly on the negative side of plane i / on its non-negative side.
OutsidePlane(id, i) ==
    \A pt \in CellCorners(FramePush, id) : PlaneDot(frustum[i], pt, <<grid_width, grid_height>>, size) < 0
InsidePlane(id, i) ==
    \A pt \in CellCorners(FramePush, id) : PlaneDot(frustum[i], pt, <<grid_width, grid_height>>, size) >= 0

EntirelyOutside(id) == \E i \in 1..6 : OutsidePlane(id, i)
EntirelyInside(id) == \A i \in 1..6 : InsidePlane(id, i)

\* The records of level L that the counter of L makes visible to the draw.
LevelRecords(L) ==
    {r \in DOMAIN lod_data :
        /\ r \div (grid_width * grid_height) = L
        /\ r % (grid_width * grid_height) < lod_data_counters[L].instance_count}

\* Places where the cell of thread id has been appended, as <<level, record index>>.
Appended(id) ==
    {<<L, r>> \in CounterSlots \X DOMAIN lod_data :
        r \in LevelRecords(L) /\ lod_data[r].offset = CellOffset(FramePush, id)}

CellsAt(L) == {id \in AllCells : classified[id] = L}
VisibleAt(L) == {id \in AllCells : cull_slot[id].ran /\ cull_slot[id].visible /\ cull_slot[id].lod = L}

\* C1: once the pass has run, a cell entirely outside some frustum plane is in
\* no level of the tile buffer, and a cell entirely inside all six planes
\* (touching counts as inside) is there exactly once, at its classified level.
C1_VisibilityCulling ==
    PassComplete =>
        \A id \in AllCells :
            /\ EntirelyOutside(id) => Appended(id) = {}
            /\ EntirelyInside(id) =>
                  /\ Cardinality(Appended(id)) = 1
                  /\ \A a \in Appended(id) : a[1] = classified[id] /\ lod_data[a[2]].lod = classified[id]

\* C1 witness: a finished pass with a cell outside a plane, a cell inside all
\* planes, and a cell inside that touches a plane exactly.
C1_Witness ==
    /\ PassComplete
    /\ \E id \in AllCells : EntirelyOutside(id) /\ Appended(id) = {}
    /\ \E id \in AllCells :
          /\ EntirelyInside(id) /\ Cardinality(Appended(id)) = 1
          /\ \E i \in 1..6, pt \in CellCorners(FramePush, id) :
                PlaneDot(frustum[i], pt, <<grid_width, grid_height>>, size) = 0

\* C2: after the cull pass of every frame, the counter of each level is at most
\* the number of cells this frame's classification assigned to the level.
C2_CountsBounded ==
    PassComplete =>
        \A L \in CounterSlots : lod_data_counters[L].instance_count <= Cardinality(CellsAt(L))

\* C2 witness: the second frame ends with a level that has fewer tiles than the
\* first frame left in its counter.
C2_Witness ==
    /\ PassComplete
    /\ frame = 2
    /\ \E L \in CounterSlots :
          /\ lod_data_counters[L].instance_count < Cardinality(CellsAt(L))
          /\ draws # <<>>
          /\ \E k \in 1..Len(draws) :
                draws[k].lod = L /\ draws[k].params.instance_count > lod_data_counters[L].instance_count

\* C3: at every point of the cull dispatch, visible cells of one level hold
\* distinct slots, each record sits at the pre-increment value its thread got,
\* the slots taken at a level are exactly 0..count-1, and at the end the count
\* is the number of visible cells classified at the level.
C3_AtomicAppend ==
    (cmd # <<>> /\ \E id \in AllCells : cull_slot[id].ran) =>
        /\ \A a, b \in AllCells :
              (a # b /\ cull_slot[a].visible /\ cull_slot[b].visible
                 /\ cull_slot[a].lod = cull_slot[b].lod) => cull_slot[a].slot # cull_slot[b].slot
        /\ \A id \in AllCells : cull_slot[id].visible =>
              LET r == cull_slot[id].lod * grid_width * grid_height + cull_slot[id].slot
              IN /\ r \in DOMAIN lod_data
                 /\ lod_data[r] = [offset |-> CellOffset(FramePush, id), lod |-> cull_slot[id].lod]
        /\ \A L \in CounterSlots :
              {cull_slot[id].slot : id \in VisibleAt(L)} = 0..(lod_data_counters[L].instance_count - 1)
        /\ PassComplete => \A L \in CounterSlots :
              lod_data_counters[L].instance_count =
                  Cardinality({id \in AllCells : classified[id] = L /\ cull_slot[id].visible})

\* C3 witness: two visible cells of one level appended in the order opposite to
\* their thread ids.
C3_Witness ==
    /\ PassComplete
    /\ \E a, b \in AllCells :
          /\ a[1] < b[1]
          /\ cull_slot[a].visible /\ cull_slot[b].visible
          /\ cull_slot[a].lod = cull_slot[b].lod
          /\ cull_slot[a].slot > cull_slot[b].slot

CmdIndex(program) == {i \in 1..Len(cmd) : cmd[i].op = "dispatch" /\ cmd[i].program = program}
BarrierIndex == {i \in 1..Len(cmd) : cmd[i].op = "barrier"}

\* C4: the recorded pass has the classification and the counter initialisation
\* before a barrier and the cull dispatch after it, and no cull thread runs
\* before every cell is classified and the counters are initialised.
C4_CullerOrdering ==
    cmd # <<>> =>
        /\ \E b \in CmdIndex("update_lod"), n \in CmdIndex("init_counter_buffer"),
              r \in BarrierIndex, c \in CmdIndex("cull_blocks") : b < r /\ n < r /\ r < c
        /\ \A c \in CmdIndex("cull_blocks") : \E r \in BarrierIndex : r < c
        /\ (\E id \in AllCells : cull_slot[id].ran) =>
              /\ counters_initialized
              /\ \A id \in AllCells : classified[id] # NULL

\* C4 witness: the cull dispatch is under way, part of its threads have run.
C4_Witness ==
    /\ cmd # <<>>
    /\ \E id \in AllCells : cull_slot[id].ran
    /\ \E id \in AllCells : ~cull_slot[id].ran

\* C5: a render invocation issues one indirect draw per tier, finest first; the
\* draw of tier L binds the buffers of mesh-table entry L, the L-th sub-range of
\* the tile buffer and slot L of the counter buffer, also when that count is 0.
C5_RendererDraws ==
    (cmd = <<>> /\ frame > 0) =>
        /\ Len(draws) = Len(quad_lod)
        /\ \A k \in 1..Len(draws) :
              /\ draws[k].lod = k - 1
              /\ draws[k].vbo = quad_lod[k].vbo
              /\ draws[k].ibo = quad_lod[k].ibo
              /\ draws[k].ubo_offset = (k - 1) * grid_width * grid_height * LodRecordBytes
              /\ draws[k].ubo_range = grid_width * grid_height * LodRecordBytes
              /\ draws[k].indirect_offset = (k - 1) * IndirectDrawBytes
              /\ draws[k].params = lod_data_counters[k - 1]
              /\ draws[k].params.index_count = quad_lod[k].count

\* C5 witness: a render with one tier that has tiles and one that has none.
C5_Witness ==
    /\ cmd = <<>> /\ frame > 0
    /\ \E k \in 1..Len(draws) : draws[k].params.instance_count = 0
    /\ \E k \in 1..Len(draws) : draws[k].params.instance_count > 0

----------------------------------------------------------------------------
(* Properties of whole dispatches: totals, classification, grid snapping *)

RECURSIVE SumCounters(_)
SumCounters(n) ==
    IF n = 0 THEN 0 ELSE lod_data_counters[n - 1].instance_count + SumCounters(n - 1)

IsScenario == <<grid_width, grid_height>> = Scenario.grid /\ size = Scenario.size

\* C6: with a frustum that accepts every cell, the counters after the cull pass
\* add up to grid_width x grid_height (4096 for the 64 x 64 grid), every cell
\* having been counted in the slot of its own level.
C6_CullingTotal ==
    (PassComplete /\ frustum = AcceptAllFrustum) =>
        /\ SumCounters(MaxLODIndirect) = grid_width * grid_height
        /\ \A L \in CounterSlots :
              lod_data_counters[L].instance_count = Cardinality(CellsAt(L))
        /\ IsScenario => SumCounters(MaxLODIndirect) = 4096

\* C6 witness: the 64 x 64 grid culled with the all-accepting frustum, its
\* tiles spread over more than one level.
C6_Witness ==
    /\ PassComplete /\ frustum = AcceptAllFrustum /\ IsScenario
    /\ SumCounters(MaxLODIndirect) = 4096
    /\ lod_data_counters[0].instance_count > 0
    /\ lod_data_counters[1].instance_count > 0

LodMapWritten ==
    cmd # <<>> /\ \A i \in CmdIndex("update_lod") : Complete(cmd[i])

\* The camera lies within the horizontal extent of the cell of thread id.
ContainsCamera(id) ==
    LET o == CellOffset(FramePush, id)
        cx == last_camera_position[1] * 2 * grid_width
        cz == last_camera_position[3] * 2 * grid_height
    IN /\ o[1] * size[1] <= cx /\ cx <= (o[1] + 2) * size[1]
       /\ o[2] * size[2] <= cz /\ cz <= (o[2] + 2) * size[2]

\* C7: the classification writes every texel of the grid, whatever the grid
\* dimensions, with a level between 0 and numLevels - 1 (the pushed max_lod),
\* and level 0 for the cell that contains the camera.
C7_LodClassification ==
    LodMapWritten =>
        /\ \A i \in CmdIndex("update_lod") : cmd[i].push.max_lod = Len(quad_lod) - 1
        /\ \A t \in AllCells : 0 <= ocean_lod[t] /\ ocean_lod[t] <= Len(quad_lod) - 1
        /\ \A id \in AllCells :
              /\ 0 <= classified[id] /\ classified[id] <= Len(quad_lod) - 1
              /\ ocean_lod[Texel(FramePush, id)] = classified[id]
              /\ ContainsCamera(id) => classified[id] = 0

\* C7 witness: a grid one cell wider than a workgroup, classified from the
\* camera's cell (level 0) up to the coarsest tier.
C7_Witness ==
    /\ LodMapWritten
    /\ grid_width = WorkGroupSize + 1
    /\ Len(quad_lod) > 1
    /\ \E id \in AllCells : ContainsCamera(id) /\ classified[id] = 0
    /\ \E id \in AllCells : classified[id] = Len(quad_lod) - 1

\* The snapped center behind the pushed image_offset.
PushedCenter(push) ==
    <<push.image_offset[1] + grid_width \div 2, push.image_offset[2] + grid_height \div 2>>

\* C8: the snapped center is the camera position over the cell size rounded to
\* the nearest integer, the base offset is center x cell size - world size / 2
\* (compared as multiples of size / (2 x grid)); a 64 x 64 grid over 1000 x 1000
\* with the camera at the origin has center (0,0) and base (-500,-500).
C8_GridSnapping ==
    \A i \in CmdIndex("update_lod") :
        LET push == cmd[i].push
            center == PushedCenter(push)
        IN /\ Abs(2 * last_camera_position[1] * grid_width - 2 * center[1] * size[1]) <= size[1]
           /\ Abs(2 * last_camera_position[3] * grid_height - 2 * center[2] * size[2]) <= size[2]
           /\ push.grid_base[1] * size[1] = 2 * center[1] * size[1] - grid_width * size[1]
           /\ push.grid_base[2] * size[2] = 2 * center[2] * size[2] - grid_height * size[2]
           /\ (IsScenario /\ last_camera_position = <<0, 0, 0>>) =>
                 /\ center = <<0, 0>>
                 /\ push.grid_base[1] * size[1] = (0 - 500) * 2 * grid_width
                 /\ push.grid_base[2] * size[2] = (0 - 500) * 2 * grid_height

\* C8 witness: the pass recorded for the 64 x 64 grid with the camera at the
\* origin; its base is 64 units of 1000 / 128 below zero on both axes.
C8_Witness ==
    /\ cmd # <<>> /\ IsScenario
    /\ last_camera_position = <<0, 0, 0>>
    /\ cmd[1].push.grid_base = <<0 - 64, 0 - 64>>
    /\ cmd[1].push.image_offset = <<0 - 32, 0 - 32>>

----------------------------------------------------------------------------
(* Properties of the LOD mesh table *)

TierStrides == [k \in 1..Len(quad_lod) |-> quad_lod[k].stride]

\* C9 as stated: one tier for each power-of-two stride from 1 up to R, so four
\* tiers with strides 1, 2, 4, 8 for R = 8.
C9_OneTierPerStrideUpToR ==
    device_alive =>
        /\ \A k \in 0..grid_resolution :
              Pow2(k) <= grid_resolution => (k + 1 <= Len(quad_lod) /\ TierStrides[k + 1] = Pow2(k))
        /\ \A k \in 1..Len(quad_lod) : TierStrides[k] <= grid_resolution
        /\ grid_resolution = 8 => TierStrides = <<1, 2, 4, 8>>

\* C9 amended: one tier for each power-of-two stride 2^k whose size R >> k is
\* at least 2, finest first, so three tiers with strides 1, 2, 4 for R = 8.
C9_OneTierPerStrideOfSizeTwo ==
    device_alive =>
        /\ \A k \in 0..grid_resolution :
              grid_resolution \div Pow2(k) >= 2 <=> k + 1 <= Len(quad_lod)
        /\ \A k \in 1..Len(quad_lod) :
              /\ TierStrides[k] = Pow2(k - 1)
              /\ quad_lod[k].lodsize = grid_resolution \div Pow2(k - 1)
        /\ grid_resolution = 8 => TierStrides = <<1, 2, 4>>

\* C9 witness: the table built for R = 8.
C9_Witness == device_alive /\ grid_resolution = 8 /\ Len(quad_lod) = 3

\* C10: the tier of size s has (s+1) x (s+1) vertices and s strips of 2 x (s+1)
\* indices, each followed by one restart index; its count is that length.
C10_TierShape ==
    device_alive =>
        \A k \in 1..Len(quad_lod) :
            LET s == grid_resolution \div Pow2(k - 1)
                vertices == buffers[quad_lod[k].vbo]
                indices == buffers[quad_lod[k].ibo]
                row == 2 * (s + 1) + 1
            IN /\ Len(vertices) = (s + 1) * (s + 1)
               /\ Len(indices) = s * row
               /\ quad_lod[k].count = s * row
               /\ \A j \in 1..Len(indices) :
                     (j % row = 0) <=> (indices[j] = RestartIndex)
               /\ (k = 1 /\ grid_resolution = 8) => Len(vertices) = 81

\* C10 witness: the three tiers of R = 8, the finest with 81 vertices.
C10_Witness ==
    /\ device_alive /\ grid_resolution = 8
    /\ Len(quad_lod) = 3
    /\ Len(buffers[quad_lod[1].vbo]) = 81
    /\ quad_lod[3].count = 2 * 7

\* The tile edges a vertex lies on, as indices into its weights:
\* 1 for x = 0, 2 for x = R, 3 for y = 0, 4 for y = R.
EdgesOf(v) ==
    {e \in 1..4 : \/ e = 1 /\ v.pos[1] = 0
                  \/ e = 2 /\ v.pos[1] = grid_resolution
                  \/ e = 3 /\ v.pos[2] = 0
                  \/ e = 4 /\ v.pos[2] = grid_resolution}

FlagsOf(v) == {e \in 1..4 : v.weights[e] # 0}

TierVertices(k) == buffers[quad_lod[k].vbo]

\* C11 as stated: every vertex carries the full-weight flag of each edge it
\* lies on, a corner both of its edges' flags, and a vertex on no edge none.
C11_EveryEdgeFlagged ==
    device_alive =>
        \A k \in 1..Len(quad_lod) : \A j \in 1..Len(TierVertices(k)) :
            LET v == TierVertices(k)[j]
            IN /\ FlagsOf(v) = EdgesOf(v)
               /\ \A e \in FlagsOf(v) : v.weights[e] = FullWeight

\* C11 amended: a vertex on a tile edge carries exactly one full-weight flag,
\* that of the x edge it lies on if it lies on one and of its y edge
\* otherwise, so a corner carries only its x edge's flag; a vertex on no edge
\* has all four flags zero.
C11_OneEdgeFlagged ==
    device_alive =>
        \A k \in 1..Len(quad_lod) : \A j \in 1..Len(TierVertices(k)) :
            LET v == TierVertices(k)[j]
                xedges == EdgesOf(v) \cap {1, 2}
            IN /\ EdgesOf(v) = {} => FlagsOf(v) = {}
               /\ EdgesOf(v) # {} => Cardinality(FlagsOf(v)) = 1
               /\ FlagsOf(v) \subseteq EdgesOf(v)
               /\ xedges # {} => FlagsOf(v) \subseteq xedges
               /\ \A e \in FlagsOf(v) : v.weights[e] = FullWeight

\* C11 witness: the finest tier of R = 8 with its first corner flagged for
\* x = 0 only, a vertex of the y = 0 edge, and an interior vertex.
C11_Witness ==
    /\ device_alive /\ grid_resolution = 8 /\ Len(quad_lod) = 3
    /\ TierVertices(1)[1].weights = <<FullWeight, 0, 0, 0>>
    /\ TierVertices(1)[9].weights = <<0, FullWeight, 0, 0>>
    /\ TierVertices(1)[2].weights = <<0, 0, FullWeight, 0>>
    /\ TierVertices(1)[11].weights = <<0, 0, 0, 0>>

----------------------------------------------------------------------------
(* Properties of the FFT update pass *)

FftDispatches == {i \in 1..Len(fft_cmd) : fft_cmd[i].op = "dispatch"}
FftBarriers == {i \in 1..Len(fft_cmd) : fft_cmd[i].op = "barrier"}
FftProgram(i) == IF i \in FftDispatches THEN fft_cmd[i].program ELSE "barrier"

FftBarrierBetween(i, j) == \E k \in FftBarriers : i < k /\ k < j

\* C12: the FFT update pass records the three modulation dispatches, a
\* barrier, the three inverse transforms, a barrier, the bake of the combined
\* maps and then the mip generation; no dispatch reads what an earlier
\* dispatch of the pass wrote without a barrier recorded between the two.
C12_SynthesisOrdering ==
    fft_cmd # <<>> =>
        /\ Len(fft_cmd) >= 9
        /\ \A i \in 1..3 : FftProgram(i) = "generate_fft"
        /\ FftProgram(4) = "barrier"
        /\ \A i \in 5..7 : FftProgram(i) = "fft"
        /\ FftProgram(8) = "barrier"
        /\ FftProgram(9) = "bake_maps"
        /\ \A i \in 10..Len(fft_cmd) : FftProgram(i) \in {"barrier", "mipmap"}
        /\ \A i, j \in FftDispatches :
              (i < j /\ fft_cmd[i].writes \cap fft_cmd[j].reads # {}) => FftBarrierBetween(i, j)

\* C12 witness: a pass recorded and executed to its end whose mip generation
\* reads what the bake and the normal transform wrote.
C12_Witness ==
    /\ fft_cmd # <<>> /\ fft_pc = Len(fft_cmd)
    /\ \E j \in FftDispatches :
          /\ FftProgram(j) = "mipmap"
          /\ fft_cmd[9].writes \cap fft_cmd[j].reads # {}
    /\ \E j \in FftDispatches :
          /\ FftProgram(j) = "mipmap"
          /\ fft_cmd[6].writes \cap fft_cmd[j].reads # {}

\* The dispatches of the recorded pass that write level l of an image.
WritersOf(image, l) == {j \in FftDispatches : Level(image, l) \in fft_cmd[j].writes}

\* The chain of one mipped texture, given the list of its cached views.
MipChainOf(list) ==
    LET image == Head(list).image
    IN \A i \in 1..(image.levels - 1) :
          /\ Cardinality(WritersOf(image, i)) = 1
          /\ \A j \in WritersOf(image, i) :
                /\ fft_cmd[j].program = "mipmap"
                /\ fft_cmd[j].reads = {Level(image, i - 1)}
                /\ WritersOf(image, i - 1) # {}
                /\ \A w \in WritersOf(image, i - 1) : w < j /\ FftBarrierBetween(w, j)

\* C13: in the recorded pass, every level from 1 to the last of each of the
\* three mipped textures is written by exactly one dispatch, which reads only
\* the level before it of the same texture, after a barrier that follows the
\* dispatch that wrote that level.
C13_MipChain ==
    fft_cmd # <<>> =>
        /\ MipChainOf(vertex_mip_views)
        /\ MipChainOf(fragment_mip_views)
        /\ MipChainOf(normal_mip_views)

\* C13 witness: a pass executed to its end with three levels of the
\* height-displacement and normal textures and a full chain of the
\* gradient-jacobian texture.
C13_Witness ==
    /\ fft_cmd # <<>> /\ fft_pc = Len(fft_cmd)
    /\ Len(vertex_mip_views) = 3
    /\ Len(normal_mip_views) = 3
    /\ Len(fragment_mip_views) = 9
    /\ Head(vertex_mip_views).image.levels = 3
    /\ \E j \in FftDispatches : fft_cmd[j].program = "mipmap" /\ fft_cmd[j].push.lod = 7

\* C14 as stated: both combined textures are declared with as many mip levels
\* as the mesh table has tiers, and the height-displacement texture gets one
\* view per tier.
C14_BothDeclaredWithTierCount ==
    declared # NoDeclarations =>
        /\ declared["ocean-height-displacement-output"].levels = Len(quad_lod)
        /\ declared["ocean-gradient-jacobian-output"].levels = Len(quad_lod)
        /\ vertex_mip_views # <<>> => Len(vertex_mip_views) = Len(quad_lod)

\* C14 amended: the height-displacement texture is declared with as many mip
\* levels as the mesh table has tiers and gets one view per tier; the
\* gradient-jacobian texture is declared with 0 levels, whatever the number
\* of tiers.
C14_HeightDisplacementDeclaredWithTierCount ==
    declared # NoDeclarations =>
        /\ declared["ocean-height-displacement-output"].levels = Len(quad_lod)
        /\ declared["ocean-gradient-jacobian-output"].levels = 0
        /\ vertex_mip_views # <<>> => Len(vertex_mip_views) = Len(quad_lod)

\* C14 witness: three tiers, the passes declared for a height FFT size of 256
\* and the views set up: three of the one texture, nine of the other.
C14_Witness ==
    /\ declared # NoDeclarations
    /\ Len(quad_lod) = 3 /\ height_fft_size = 256
    /\ Len(vertex_mip_views) = 3
    /\ Len(fragment_mip_views) = 9

----------------------------------------------------------------------------
(* Properties of malformed configurations *)

ZeroGrid == grid_width = 0 \/ grid_height = 0

IsPowerOfTwo(n) == \E k \in 0..n : Pow2(k) = n

MalformedConfiguration ==
    \/ ZeroGrid
    \/ \E n \in {height_fft_size, displacement_fft_size, normal_fft_size} : ~IsPowerOfTwo(n)

\* C15: a configuration with a zero grid dimension or an FFT size that is not
\* a power of two is rejected when the object is constructed or the device
\* created: the mesh table is never built and no dispatch is ever recorded
\* for it.
C15_MalformedConfigurationRejected ==
    MalformedConfiguration => (cmd = <<>> /\ fft_cmd = <<>>)

GroupCount(c) == c.groups[1] * c.groups[2] * c.groups[3]

\* C16: with a zero grid dimension the classification and the cull dispatch
\* are recorded with zero workgroups, no tile is ever appended, and once the
\* counters are initialised every per-level count is and stays 0.
C16_ZeroGridNoOp ==
    ZeroGrid =>
        /\ \A i \in CmdIndex("update_lod") \cup CmdIndex("cull_blocks") : GroupCount(cmd[i]) = 0
        /\ \A i \in CmdIndex("update_lod") \cup CmdIndex("cull_blocks") : Complete(cmd[i])
        /\ lod_data = [r \in {} |-> NULL]
        /\ counters_initialized =>
              \A L \in CounterSlots : lod_data_counters[L].instance_count = 0

\* C16 witness: a grid of width 0 and positive height whose pass has run to
\* its end in a second frame.
C16_Witness ==
    /\ grid_width = 0 /\ grid_height > 0
    /\ frame = MaxFrames
    /\ PassComplete
    /\ CmdIndex("cull_blocks") # {}
    /\ \A L \in CounterSlots : lod_data_counters[L].instance_count = 0

----------------------------------------------------------------------------
(* Properties of resource creation *)

\* C17: a failed buffer creation ends the initialisation in a fatal error:
\* an ocean whose device-created handler has returned holds no mesh-table
\* entry with a null vertex or index buffer and no null distribution buffer,
\* and no draw is issued with a null buffer.
C17_CreationFailureIsFatal ==
    /\ \A k \in 1..Len(quad_lod) : quad_lod[k].vbo # NULL /\ quad_lod[k].ibo # NULL
    /\ device_alive =>
          /\ distribution_buffer # NULL
          /\ distribution_buffer_displacement # NULL
          /\ distribution_buffer_normal # NULL
    /\ \A k \in 1..Len(draws) : draws[k].vbo # NULL /\ draws[k].ibo # NULL

----------------------------------------------------------------------------
(* Properties of the shared resources *)

LodDispatches == {i \in 1..Len(cmd) : cmd[i].op = "dispatch"}

\* C18: the counter buffer and the tile buffer are outputs of the LOD update
\* pass and inputs of the render pass; no dispatch of the FFT update pass
\* binds either of them and none has written them, and no dispatch of the LOD
\* update pass binds a texture of the synthesized field.
C18_SharedResourcePolicy ==
    /\ \A n \in LodBufferNames :
          n \in DOMAIN declared => declared[n].pass = "ocean-update-lods"
    /\ target_inputs # {} => LodBufferNames \subseteq target_inputs
    /\ \A i \in FftDispatches :
          \A r \in fft_cmd[i].reads \cup fft_cmd[i].writes : r.name \notin LodBufferNames
    /\ \A r \in written : r.name \notin LodBufferNames
    /\ \A i \in LodDispatches :
          (cmd[i].storage \cup cmd[i].sampled) \cap FieldTextureNames = {}
    /\ \A n \in LodBufferNames :
          \A i \in LodDispatches :
             n \in cmd[i].storage => cmd[i].program \in {"init_counter_buffer", "cull_blocks"}

\* Both passes of a frame are recorded and executed, the culler has appended
\* tiles, and the render pass has declared its inputs.
C18_Witness ==
    /\ target_inputs # {}
    /\ PassComplete
    /\ fft_cmd # <<>> /\ fft_pc = Len(fft_cmd)
    /\ DOMAIN lod_data # {}
    /\ \E r \in written : r.name \in FieldTextureNames

----------------------------------------------------------------------------
(* Properties of the modulation *)

Fields == {"height", "displacement", "normal"}

DistributionName(f) ==
    CASE f = "height" -> "distribution"
      [] f = "displacement" -> "distribution-displacement"
      [] f = "normal" -> "distribution-normal"

FftInputName(f) ==
    CASE f = "height" -> "ocean-height-fft-input"
      [] f = "displacement" -> "ocean-displacement-fft-input"
      [] f = "normal" -> "ocean-normal-fft-input"

\* C19: the modulation dispatch of each field is pushed the field's own
\* resolution as N, reads the field's distribution buffer, writes the field's
\* FFT input buffer and covers an extent derived from the same resolution.
C19_PerFieldModulation ==
    \A i \in FftDispatches :
       fft_cmd[i].program = "generate_fft" =>
          LET f == fft_cmd[i].variant
          IN /\ fft_cmd[i].push.N = <<FFTSizes[f], FFTSizes[f]>>
             /\ fft_cmd[i].groups = <<FFTSizes[f] \div 64, FFTSizes[f], 1>>
             /\ fft_cmd[i].reads = DeviceBuffer(DistributionName(f), Distributions[f])
             /\ fft_cmd[i].writes # {}
             /\ \A r \in fft_cmd[i].writes :
                   r.name = FftInputName(f) /\ r.gen = physical[FftInputName(f)].gen

----------------------------------------------------------------------------
(* Properties of the image-view cache *)

\* The views of list are the views of the current physical texture name, one
\* per mip level and in level order.
ViewsCurrent(list, name) ==
    /\ Len(list) = physical[name].levels
    /\ \A k \in 1..Len(list) :
          /\ list[k].image.name = name
          /\ list[k].image.gen = physical[name].gen
          /\ list[k].base_level = k - 1

\* C20: whenever setup_render_pass_resources has returned, each of the three
\* view lists holds exactly one view per mip level of the current physical
\* texture, whatever resources were reallocated and whatever device events
\* happened before.
C20_ViewCacheCurrent ==
    resources_ready =>
       /\ ViewsCurrent(vertex_mip_views, "ocean-height-displacement-output")
       /\ ViewsCurrent(fragment_mip_views, "ocean-gradient-jacobian-output")
       /\ ViewsCurrent(normal_mip_views, "ocean-normal-fft-output")

----------------------------------------------------------------------------
(* Properties of the mesh table's lifecycle *)

\* The table one build leaves for the configured resolution.
OneBuild == build_buffers(DeviceState(<<>>, NoBuffers, {}), grid_resolution).quad_lod

\* Number of tiers of the resolution: the sizes R >> k that are at least 2.
TierCount == Cardinality({k \in 0..grid_resolution : grid_resolution \div Pow2(k) >= 2})

\* C21: while the device is alive the mesh table holds exactly the tiers of
\* one build for the configured resolution, each once and with buffers of the
\* live device; it is empty while there is no device; so no device event
\* duplicates or keeps tiers and no per-frame operation changes the table.
C21_MeshTableLifecycle ==
    /\ ~device_alive => quad_lod = <<>>
    /\ device_alive =>
          /\ Len(quad_lod) = TierCount
          /\ quad_lod = OneBuild
          /\ \A k \in 1..Len(quad_lod) :
                LET s == grid_resolution \div Pow2(k - 1)
                IN /\ quad_lod[k].lodsize = s
                   /\ quad_lod[k].count = s * (2 * (s + 1) + 1)
                   /\ quad_lod[k].vbo \in DOMAIN buffers
                   /\ quad_lod[k].ibo \in DOMAIN buffers
                   /\ Len(buffers[quad_lod[k].ibo]) = quad_lod[k].count
          /\ \A j, k \in 1..Len(quad_lod) :
                j # k => /\ quad_lod[j].vbo # quad_lod[k].vbo
                         /\ quad_lod[j].ibo # quad_lod[k].ibo
                         /\ quad_lod[j].stride # quad_lod[k].stride

\* A second device, after a whole frame with a moved camera and a later time:
\* both passes executed and the three tiers of R = 8 drawn.
C21_Witness ==
    /\ device_alive /\ device_events >= 2
    /\ grid_resolution = MaxResolution /\ Len(quad_lod) = 3
    /\ last_camera_position # <<0, 0, 0>> /\ current_time # 0
    /\ fft_cmd # <<>> /\ fft_pc = Len(fft_cmd)
    /\ PassComplete
    /\ Len(draws) = 3

----------------------------------------------------------------------------
(* Properties of the mesh builder's capacity and encoding *)

\* A mesh table of n tiers, whatever its buffers.
TableOf(n) == [k \in 1..n |-> [vbo |-> k, ibo |-> k, count |-> 0, lodsize |-> 0, stride |-> 0]]

\* Bytes of the counter buffer and of the tile buffer that add_lod_update_pass declares.
CounterBufferBytes ==
    add_lod_update_pass(grid_width, grid_height, 1)["ocean-lod-counter"].width * IndirectDrawBytes
TileBufferBytes ==
    add_lod_update_pass(grid_width, grid_height, 1)["ocean-lod-data"].width * LodRecordBytes

\* C22: the tiers build_buffers has built number at most MaxLODIndirect, so
\* that for each of them the slot of the render info's vbos and ibos arrays,
\* the 32 bytes read at the indirect-draw offset and the bound sub-range of
\* the tile buffer lie inside their allocations.
C22_TierCapacity ==
    /\ build.tiers <= MaxLODIndirect
    /\ LET info == get_render_info(TableOf(build.tiers), grid_width, grid_height)
       IN \A lod \in DOMAIN info.vbos :
             LET draw == DrawLod(info, lod, lod_data_counters)
             IN /\ lod < MaxLODIndirect
                /\ draw.indirect_offset + IndirectDrawBytes <= CounterBufferBytes
                /\ draw.ubo_offset + draw.ubo_range <= TileBufferBytes

\* Vertices of the tier being built: the square of the vertex loops' iterations.
TierVertexCount == (grid_resolution \div build.stride + 1) * (grid_resolution \div build.stride + 1)

\* C25: every index the index loop pushes is stored unchanged in its 16 bits,
\* is smaller than the tier's vertex count and is not the restart index, and
\* every vertex is stored with its own coordinates as its 8-bit position.
C25_IndexAndVertexEncoding ==
    /\ \A k \in 1..Len(build.vertex) :
          /\ build.vertex[k].stored.pos[1] = build.vertex[k].x
          /\ build.vertex[k].stored.pos[2] = build.vertex[k].y
    /\ \A k \in 1..Len(build.index) : \A c \in 1..2 :
          /\ build.index[k].stored[c] = build.index[k].pushed[c]
          /\ build.index[k].stored[c] # RestartIndex
          /\ build.index[k].stored[c] < TierVertexCount

----------------------------------------------------------------------------
(* Properties of the two grid bases *)

\* The dispatches of the recorded LOD pass that are pushed the grid's bases.
GridDispatches ==
    {i \in 1..Len(cmd) : cmd[i].op = "dispatch" /\ cmd[i].program \in {"update_lod", "cull_blocks"}}

SameBases ==
    \A i, j \in GridDispatches :
       /\ cmd[i].push.grid_base = cmd[j].push.grid_base
       /\ cmd[i].push.image_offset = cmd[j].push.image_offset

\* C24: the world-space base pushed to the classification and cull
\* dispatches is the pushed integer base cell times the cell size, for even
\* and odd grid dimensions, and both dispatches are pushed the same two values.
C24_BaseIsOffsetTimesCell ==
    /\ SameBases
    /\ \A i \in GridDispatches : \A a \in 1..2 :
          cmd[i].push.grid_base[a] = cmd[i].push.image_offset[a] * cmd[i].push.grid_size[a]

----------------------------------------------------------------------------
(* Properties of the tile buffer's per-level regions *)

Cells == grid_width * grid_height

\* C23: the records the culler's level stride gives a level and the bytes the
\* renderer binds for it are the same region of the tile buffer: the regions
\* of different levels do not overlap, a level's count never exceeds the
\* number of cells, and every record appended for a level lies inside that
\* level's region and inside the buffer.
C23_LevelRegions ==
    /\ \A i \in LodDispatches :
          cmd[i].program = "cull_blocks" =>
             cmd[i].push.lod_stride * LodRecordBytes
                = get_render_info(quad_lod, grid_width, grid_height).lod_stride
    /\ \A k \in 1..Len(draws) :
          /\ draws[k].ubo_offset = draws[k].lod * Cells * LodRecordBytes
          /\ draws[k].ubo_range = Cells * LodRecordBytes
          /\ draws[k].ubo_offset + draws[k].ubo_range <= TileBufferBytes
    /\ \A j, k \in 1..Len(draws) :
          j < k => draws[j].ubo_offset + draws[j].ubo_range <= draws[k].ubo_offset
    /\ counters_initialized =>
          \A L \in DOMAIN lod_data_counters : lod_data_counters[L].instance_count <= Cells
    /\ \A id \in AllCells :
          cull_slot[id].visible =>
             /\ cull_slot[id].slot < Cells
             /\ cull_slot[id].lod * Cells + cull_slot[id].slot < LodDataRecords
    /\ \A r \in DOMAIN lod_data :
          /\ r < LodDataRecords
          /\ lod_data[r].lod = r \div Cells

\* A grid of several cells after a whole frame: one level holds a record for
\* every cell, so its region is full, and the tiers have been drawn.
C23_Witness ==
    /\ Cells > 1
    /\ PassComplete
    /\ \E L \in DOMAIN lod_data_counters :
          /\ lod_data_counters[L].instance_count = Cells
          /\ (L + 1) * Cells - 1 \in DOMAIN lod_data
    /\ Len(draws) > 1

====
